---- MODULE Spec2Model ----
(***************************************************************************)
(* Emax dose-response workshop apps (ribocure-pmx/workshop-data).          *)
(*                                                                         *)
(* src/src/App.jsx      : the fitting app (simulate, optimise, Hessian     *)
(*                        covariance, confidence band)                     *)
(* src/unnamed/part_001 : the design app (expected Fisher information,     *)
(*                        %RSE, confidence band)                           *)
(*                                                                         *)
(* JavaScript numbers are modelled as IEEE-754 doubles: m * 2^e with a     *)
(* 53-bit mantissa, plus NaN, +Infinity and -Infinity.  Every operation    *)
(* rounds its exact result to the nearest double, ties to even, overflows  *)
(* to an infinity, and the special values follow the IEEE-754 rules the    *)
(* code relies on (x/0, 0/0, Inf-Inf, comparisons with NaN, sqrt of a      *)
(* negative).  Two simplifications: signed zeros are not distinguished,    *)
(* and results below the normal range (2^-1022) become 0.                  *)
(***************************************************************************)
EXTENDS Integers, Sequences, FiniteSets, TLC

(***************************************************************************)
(* Number system                                                           *)
(*                                                                         *)
(* A finite number is s * m * 2^e: a sign s, a 53-bit mantissa m held as   *)
(* four limbs of 14 bits, least significant first, and a binary exponent   *)
(* e.  Magnitudes in the middle of an operation are limb sequences of any  *)
(* length.                                                                 *)
(***************************************************************************)
\* the limb base 2^14, and the shape of a mantissa
LimbBits == 14
Limb == 16384
MantBits == 53
MantLimbs == 4
\* the leading limb of a mantissa is in TopLimb .. 2 * TopLimb - 1
TopLimb == 1024
\* exponent range of m * 2^e: Number.MAX_VALUE = (2^53 - 1) * 2^971, and the
\* least normal number is 2^52 * 2^-1074
ExpMax == 971
ExpMin == -1074

Inf(s) == [t |-> "inf", s |-> s, m |-> << >>, e |-> 0]
NaN == [t |-> "nan", s |-> 0, m |-> << >>, e |-> 0]
PInf == Inf(1)
NInf == Inf(-1)
Zero == [t |-> "fin", s |-> 0, m |-> << >>, e |-> 0]

IsNaN(a) == a.t = "nan"
IsFin(a) == a.t = "fin"
Sgn(n) == IF n > 0 THEN 1 ELSE IF n < 0 THEN -1 ELSE 0
AbsInt(n) == IF n < 0 THEN -n ELSE n

\* 2^k for k in 0..14
Pow2(k) == 2^k

\* the number of bits of a limb
BitLen(l) == Cardinality({k \in 0..(LimbBits - 1) : Pow2(k) <= l})

\* limb i of a magnitude, 0 past its end
LimbAt(a, i) == IF i >= 1 /\ i <= Len(a) THEN a[i] ELSE 0

\* a magnitude without its leading zero limbs
RECURSIVE Trim(_)
Trim(a) ==
  IF a = << >> THEN a
  ELSE IF a[Len(a)] = 0 THEN Trim(SubSeq(a, 1, Len(a) - 1)) ELSE a

\* a * Limb^n
RECURSIVE ShiftLimbs(_, _)
ShiftLimbs(a, n) == IF n = 0 THEN a ELSE ShiftLimbs(<< 0 >> \o a, n - 1)

\* limbs i.. of a + b + carry
RECURSIVE AddFrom(_, _, _, _)
AddFrom(a, b, i, carry) ==
  IF i > Len(a) /\ i > Len(b)
    THEN IF carry = 0 THEN << >> ELSE << carry >>
  ELSE LET sum == LimbAt(a, i) + LimbAt(b, i) + carry
       IN << sum % Limb >> \o AddFrom(a, b, i + 1, sum \div Limb)

AddMag(a, b) == AddFrom(a, b, 1, 0)

\* limbs i.. of a - b - borrow, for a >= b
RECURSIVE SubFrom(_, _, _, _)
SubFrom(a, b, i, borrow) ==
  IF i > Len(a) THEN << >>
  ELSE LET diff == a[i] - LimbAt(b, i) - borrow
       IN << diff % Limb >> \o SubFrom(a, b, i + 1, IF diff < 0 THEN 1 ELSE 0)

SubMag(a, b) == Trim(SubFrom(a, b, 1, 0))

\* -1, 0, 1 as a < b, a = b, a > b, comparing limbs i, i-1, .. 1
RECURSIVE CmpFrom(_, _, _)
CmpFrom(a, b, i) ==
  IF i = 0 THEN 0
  ELSE IF LimbAt(a, i) # LimbAt(b, i) THEN Sgn(LimbAt(a, i) - LimbAt(b, i))
  ELSE CmpFrom(a, b, i - 1)

CmpMag(a, b) == CmpFrom(a, b, IF Len(a) > Len(b) THEN Len(a) ELSE Len(b))

\* limbs i.. of a * k + carry, for 0 <= k <= Limb
RECURSIVE MulSmallFrom(_, _, _, _)
MulSmallFrom(a, k, i, carry) ==
  IF i > Len(a)
    THEN IF carry = 0 THEN << >> ELSE << carry >>
  ELSE LET prod == a[i] * k + carry
       IN << prod % Limb >> \o MulSmallFrom(a, k, i + 1, prod \div Limb)

MulSmall(a, k) == MulSmallFrom(a, k, 1, 0)

\* a * b for four-limb a, b: eight limbs, by columns with the carries
MulMag(a, b) ==
  LET c1 == a[1] * b[1]
      c2 == a[1] * b[2] + a[2] * b[1] + c1 \div Limb
      c3 == a[1] * b[3] + a[2] * b[2] + a[3] * b[1] + c2 \div Limb
      c4 == a[1] * b[4] + a[2] * b[3] + a[3] * b[2] + a[4] * b[1] + c3 \div Limb
      c5 == a[2] * b[4] + a[3] * b[3] + a[4] * b[2] + c4 \div Limb
      c6 == a[3] * b[4] + a[4] * b[3] + c5 \div Limb
      c7 == a[4] * b[4] + c6 \div Limb
  IN << c1 % Limb, c2 % Limb, c3 % Limb, c4 % Limb, c5 % Limb, c6 % Limb,
        c7 % Limb, c7 \div Limb >>

\* some of the c lowest bits of the magnitude t is set
LowBits(t, c) ==
  \/ \E i \in 1..(c \div LimbBits) : LimbAt(t, i) # 0
  \/ LimbAt(t, c \div LimbBits + 1) % Pow2(c % LimbBits) # 0

\* the 14 bits of the magnitude t from bit q * LimbBits + o up
FieldAt(t, q, o) ==
  LimbAt(t, q + 1) \div Pow2(o) + (LimbAt(t, q + 2) % Pow2(o)) * Pow2(LimbBits - o)

Field(t, pos) == FieldAt(t, pos \div LimbBits, pos % LimbBits)

\* s * m * 2^e for a mantissa m, or what it overflows to; numbers below the
\* normal range become 0
Pack(s, m, e) ==
  IF e > ExpMax THEN Inf(s)
  ELSE IF e < ExpMin THEN Zero
  ELSE [t |-> "fin", s |-> s, m |-> m, e |-> e]

\* the same for a rounded mantissa, which may have reached 2^53
NormCarry(s, m1, e) ==
  IF m1[MantLimbs] >= 2 * TopLimb THEN Pack(s, << 0, 0, 0, TopLimb >>, e + 1)
  ELSE Pack(s, m1, e)

\* the kept bits, rounded up or not
NormRound(s, kept, up, e) ==
  NormCarry(s, IF up THEN AddMag(kept, << 1 >>) ELSE kept, e)

\* t has r low bits to drop (to add, when r is negative): round to nearest,
\* ties to even
NormShift(s, t, e, inexact, r) ==
  NormRound(s,
            << Field(t, r), Field(t, r + LimbBits), Field(t, r + 2 * LimbBits),
               Field(t, r + 3 * LimbBits) >>,
            /\ r >= 1
            /\ Field(t, r - 1) % 2 = 1
            /\ (inexact \/ (r >= 2 /\ LowBits(t, r - 1)) \/ Field(t, r) % 2 = 1),
            e + r)

NormTrimmed(s, t, e, inexact) ==
  IF s = 0 \/ t = << >> THEN Zero
  ELSE NormShift(s, t, e, inexact,
                 LimbBits * (Len(t) - 1) + BitLen(t[Len(t)]) - MantBits)

\* the number s * mag * 2^e rounded to nearest, ties to even; `inexact` says
\* that mag is the integer part of a magnitude with a non-zero fraction (mag
\* then has more than 54 bits)
Norm(s, mag, e, inexact) == NormTrimmed(s, Trim(mag), e, inexact)

\* the magnitude of an integer 0 <= n < 2^31
IntMag(n) == << n % Limb, (n \div Limb) % Limb, n \div (Limb * Limb) >>

\* an integer literal
Num(i) == Norm(Sgn(i), IntMag(AbsInt(i)), 0, FALSE)

Neg(a) == IF IsFin(a) \/ a.t = "inf" THEN [a EXCEPT !.s = -a.s] ELSE NaN
Abs(a) == IF IsFin(a) \/ a.t = "inf" THEN [a EXCEPT !.s = AbsInt(a.s)] ELSE NaN

\* hs * h + ls * l for magnitudes h, l that compare as c, times 2^e
AddSigned(hs, h, ls, l, e, c) ==
  IF hs # ls /\ c = 0 THEN Zero
  ELSE Norm(IF hs = ls \/ c > 0 THEN hs ELSE ls,
            IF hs = ls THEN AddMag(h, l)
            ELSE IF c > 0 THEN SubMag(h, l) ELSE SubMag(l, h),
            e, FALSE)

AddShifted(hs, h, lo) == AddSigned(hs, h, lo.s, lo.m, lo.e, CmpMag(h, lo.m))

\* hi + lo for finite non-zero hi, lo with hi.e >= lo.e: the exact sum,
\* rounded; lo is below a quarter of hi's last bit when 56 or more apart
AddAligned(hi, lo) ==
  IF hi.e - lo.e >= MantBits + 3 THEN hi
  ELSE AddShifted(hi.s,
                  ShiftLimbs(MulSmall(hi.m, Pow2((hi.e - lo.e) % LimbBits)),
                             (hi.e - lo.e) \div LimbBits),
                  lo)

Add(a, b) ==
  IF IsNaN(a) \/ IsNaN(b) THEN NaN
  ELSE IF IsFin(a) /\ IsFin(b)
    THEN IF a.s = 0 THEN b
         ELSE IF b.s = 0 THEN a
         ELSE AddAligned(IF a.e >= b.e THEN a ELSE b, IF a.e >= b.e THEN b ELSE a)
  ELSE IF IsFin(b) THEN a
  ELSE IF IsFin(a) THEN b
  ELSE IF a.s = b.s THEN a ELSE NaN

Sub(a, b) == Add(a, Neg(b))

Mul(a, b) ==
  IF IsNaN(a) \/ IsNaN(b) THEN NaN
  ELSE IF IsFin(a) /\ IsFin(b)
    THEN IF a.s = 0 \/ b.s = 0 THEN Zero
         ELSE Norm(a.s * b.s, MulMag(a.m, b.m), a.e + b.e, FALSE)
  ELSE IF a.s = 0 \/ b.s = 0 THEN NaN
  ELSE Inf(a.s * b.s)

\* y * q for a mantissa y and 0 <= q < Limb: five limbs
MulLimb(y, q) ==
  LET c1 == y[1] * q
      c2 == y[2] * q + c1 \div Limb
      c3 == y[3] * q + c2 \div Limb
      c4 == y[4] * q + c3 \div Limb
  IN << c1 % Limb, c2 % Limb, c3 % Limb, c4 % Limb, c4 \div Limb >>

\* r - t for five-limb magnitudes r >= t
Sub5(r, t) ==
  LET d1 == r[1] - t[1]
      d2 == r[2] - t[2] - (IF d1 < 0 THEN 1 ELSE 0)
      d3 == r[3] - t[3] - (IF d2 < 0 THEN 1 ELSE 0)
      d4 == r[4] - t[4] - (IF d3 < 0 THEN 1 ELSE 0)
      d5 == r[5] - t[5] - (IF d4 < 0 THEN 1 ELSE 0)
  IN << d1 % Limb, d2 % Limb, d3 % Limb, d4 % Limb, d5 >>

\* r >= t for five-limb magnitudes
Ge5(r, t) ==
  IF r[5] # t[5] THEN r[5] > t[5]
  ELSE IF r[4] # t[4] THEN r[4] > t[4]
  ELSE IF r[3] # t[3] THEN r[3] > t[3]
  ELSE IF r[2] # t[2] THEN r[2] > t[2]
  ELSE r[1] >= t[1]

\* quotient and remainder of r by y, for five-limb r < y * Limb and a
\* mantissa y: an underestimate from the leading limbs, then the rest
RECURSIVE DivLimb(_, _)
DivLimb(r, y) ==
  IF ~Ge5(r, << y[1], y[2], y[3], y[4], 0 >>) THEN [q |-> 0, r |-> r]
  ELSE LET est == (r[5] * Limb + r[4]) \div (y[4] + 1)
           q == IF est = 0 THEN 1 ELSE est
           rest == DivLimb(Sub5(r, MulLimb(y, q)), y)
       IN [q |-> q + rest.q, r |-> rest.r]

\* r * Limb for a remainder r below a mantissa
UpLimb(r) == << 0, r[1], r[2], r[3], r[4] >>

\* long division: the results [q, r] of k steps, from the remainder r on
RECURSIVE DivSteps(_, _, _)
RECURSIVE DivCons(_, _, _)
DivSteps(r, y, k) == IF k = 0 THEN << >> ELSE DivCons(DivLimb(r, y), y, k)
DivCons(s, y, k) == << s >> \o DivSteps(UpLimb(s.r), y, k - 1)

\* the quotient limbs of five steps, and whether a remainder is left
DivResult(st) ==
  [q |-> << st[5].q, st[4].q, st[3].q, st[2].q, st[1].q >>,
   inexact |-> st[5].r # << 0, 0, 0, 0, 0 >>]

\* floor(x * Limb^4 / y) for mantissas x, y, by long division, and whether
\* the division left a remainder
DivMag(x, y) == DivResult(DivSteps(<< x[1], x[2], x[3], x[4], 0 >>, y, MantLimbs + 1))

DivQuotient(s, d, e) == Norm(s, d.q, e, d.inexact)

Div(a, b) ==
  IF IsNaN(a) \/ IsNaN(b) THEN NaN
  ELSE IF IsFin(a) /\ IsFin(b)
    THEN IF b.s = 0
           THEN IF a.s = 0 THEN NaN ELSE Inf(a.s)
         ELSE IF a.s = 0 THEN Zero
         ELSE DivQuotient(a.s * b.s, DivMag(a.m, b.m), a.e - b.e - MantLimbs * LimbBits)
  ELSE IF IsFin(b) THEN Inf(IF b.s < 0 THEN -a.s ELSE a.s)
  ELSE IF IsFin(a) THEN Zero
  ELSE NaN

\* 2^k as a double, for ExpMin + MantBits - 1 <= k < ExpMax + MantBits
PowerOfTwo(k) == [t |-> "fin", s |-> 1, m |-> << 0, 0, 0, TopLimb >>, e |-> k - (MantBits - 1)]

\* the decimal literal i * 10^-k, 0 <= k <= 9: the double nearest to it
Dec(i, k) == Div(Num(i), Num(10^k))

\* a < b for finite a, b
LtFin(a, b) ==
  IF a.s # b.s THEN a.s < b.s
  ELSE IF a.s = 0 THEN FALSE
  ELSE LET c == IF a.e # b.e THEN Sgn(a.e - b.e) ELSE CmpMag(a.m, b.m)
       IN IF a.s > 0 THEN c < 0 ELSE c > 0

\* comparisons: every comparison with NaN is false
Lt(a, b) ==
  /\ ~IsNaN(a) /\ ~IsNaN(b)
  /\ \/ IsFin(a) /\ IsFin(b) /\ LtFin(a, b)
     \/ a = NInf /\ b # NInf
     \/ b = PInf /\ a # PInf
Le(a, b) == ~IsNaN(a) /\ ~IsNaN(b) /\ (a = b \/ Lt(a, b))
Gt(a, b) == Lt(b, a)
Ge(a, b) == Le(b, a)

\* Math.max / Math.min: NaN if either argument is NaN
MathMax(a, b) == IF IsNaN(a) \/ IsNaN(b) THEN NaN ELSE IF Lt(a, b) THEN b ELSE a
MathMin(a, b) == IF IsNaN(a) \/ IsNaN(b) THEN NaN ELSE IF Lt(b, a) THEN b ELSE a

\* floor(sqrt(n)) for an integer n < 2^31, by bisection of lo..hi
RECURSIVE ISqrt(_, _, _)
ISqrt(n, lo, hi) ==
  IF lo = hi THEN lo
  ELSE LET mid == (lo + hi + 1) \div 2
       IN IF mid * mid <= n THEN ISqrt(n, mid, hi) ELSE ISqrt(n, lo, mid - 1)

\* the largest integer whose square is below 2^31
ISqrtMax == 46340

\* the largest four-limb r with r^2 <= x, from an estimate r
RECURSIVE SqrtDown(_, _)
SqrtDown(r, x) ==
  IF CmpMag(MulMag(r, r), x) <= 0 THEN r
  ELSE SqrtDown(SubFrom(r, << 1 >>, 1, 0), x)

RECURSIVE SqrtUp(_, _)
RECURSIVE SqrtUpTo(_, _, _)
SqrtUp(r, x) == SqrtUpTo(r, AddMag(r, << 1 >>), x)
SqrtUpTo(r, next, x) ==
  IF CmpMag(MulMag(next, next), x) <= 0 THEN SqrtUp(next, x) ELSE r

Halve(v) == [v EXCEPT !.e = v.e - 1]

\* one Newton step for the square root of a
SqrtStep(a, r) == Halve(Add(r, Div(a, r)))

\* k Newton steps from the estimate r
RECURSIVE SqrtNewton(_, _, _)
SqrtNewton(a, r, k) ==
  IF k = 0 \/ ~IsFin(r) THEN r ELSE SqrtNewton(a, SqrtStep(a, r), k - 1)

\* the estimate as an integer on the scale 2^(half - 2 * LimbBits)
SqrtScaled(est, half) == MulSmall(est.m, Pow2(est.e - half + 2 * LimbBits))

\* the exact integer root r of x, rounded
SqrtRounded(r, x, half) ==
  Norm(1, r, half - 2 * LimbBits, CmpMag(MulMag(r, r), x) # 0)

\* the root of x * 2^(2 * half - 4 * LimbBits): Newton steps from the root of
\* the leading limbs give an estimate of the 55-bit integer root of x; the
\* exact integer root is then rounded
SqrtFinite(a, half, x, lead) ==
  SqrtRounded(
    SqrtUp(SqrtDown(SqrtScaled(SqrtNewton(a, Norm(1, IntMag(ISqrt(lead, 1, ISqrtMax)),
                                                  LimbBits + half, FALSE), 3),
                               half), x), x),
    x, half)

\* Math.sqrt: a = m * 2^e is x * 2^(2 * half - 4 * LimbBits) with
\* x = m * 2^56, or 2m * 2^56 when e is odd
MathSqrt(a) ==
  IF IsNaN(a) THEN NaN
  ELSE IF a = PInf THEN PInf
  ELSE IF a.s < 0 THEN NaN
  ELSE IF a.s = 0 THEN Zero
  ELSE SqrtFinite(a, (a.e - (a.e % 2)) \div 2,
                  ShiftLimbs(IF a.e % 2 = 1 THEN MulSmall(a.m, 2) ELSE a.m, MantLimbs),
                  (IF a.e % 2 = 1 THEN 2 ELSE 1) * (a.m[4] * Limb + a.m[3]))

(***************************************************************************)
(* State                                                                   *)
(***************************************************************************)
VARIABLES
  \* optimizeParameters (App.jsx 45-81), run one loop iteration at a time
  optArgs,       \* its arguments [data, initialParams, iterations, learningRate]
  opt,           \* its locals [Emax, ED50, bestParams, bestRSS, learningRate, iter]
  optPc,         \* "idle", "loop" or "returned"
  optReturn,     \* the value returned (bestParams)
  optEvaluated,  \* history: the points at which line 53 evaluated RSS, with that RSS
  \* calculateCovarianceMatrix (App.jsx 85-158)
  covArgs,       \* its arguments [data, params]
  covPc,         \* "idle", "call" or "returned"
  covLocals,     \* its locals [sigma2, H11, H22, H12, det] once computed
  covReturn,     \* the value returned [standardErrors, covMatrix]
  \* sampleMultivariateNormal (App.jsx 162-192), run one draw at a time
  smpArgs,       \* its arguments [mean, covMatrix, numSamples]
  smpPc,         \* "idle", "call", "loop" or "returned"
  smpLocals,     \* the Cholesky factor [L11, L21, L22] once computed
  smpSamples,    \* the array `samples`
  smpReturn,     \* the value returned
  \* calculateRSS (App.jsx 37-42)
  rssArgs,       \* its arguments [observed, predicted]
  rssPc,         \* "idle", "call" or "returned"
  rssResult,     \* how the call ended: [kind |-> "return", value] or [kind |-> "throw"]
  \* the design application (part_001 165-257)
  dsgDoseInput,         \* the dose text box, as its comma-separated pieces
  dsgParams,            \* the sliders [Emax, ED50]
  dsgExpectedInfo,      \* useMemo expectedInfo: a covariance or null
  dsgPrecisionMetrics,  \* useMemo precisionMetrics: [rseEmax, rseED50, isPoor] or null
  dsgSamples,           \* the array sampleMultivariateNormal returned to the band's
                        \* memo, by its length; null while it was not called
  dsgConfidenceBands,   \* useMemo confidenceBands: the array of band points, by its
                        \* length, or null
  \* the fitting application (App.jsx 222-297)
  appDoseInput,        \* the dose text box, as its comma-separated pieces
  appParams,           \* the sliders [Emax, ED50]
  appExperimentData,   \* useState experimentData
  appOptimizedParams,  \* useState optimizedParams
  appStandardErrors,   \* useState standardErrors
  appCovMatrix,        \* useState covMatrix
  appIsOptimizing,     \* useState isOptimizing
  appTimers,           \* pending setTimeout callbacks, each with the experimentData
                       \* and params its closure captured
  appAlert,            \* the text of the last alert(), empty before the first
  appInvoked,          \* history: the dataset of each call of optimizeParameters and
                       \* calculateCovarianceMatrix, in order
  \* --- calls of emaxModel ---
  emxParams,           \* the parameters [E0, Emax, ED50] the calls share
  emxCalls,            \* history: the calls made so far, each with its dose, the
                       \* denominator it formed, whether it divided, and its value
  \* --- one evaluation of the useMemo confidenceBands ---
  bndArgs,             \* [mean, covMatrix, doses]: the fit and the doses it reads
  bndPc,               \* "call", "map", "returned"
  bndSamples,          \* const samples
  bndSorted,           \* history: predictions after the sort, grid point by grid point
  bndBand,             \* the points mapped so far
  bndReturn,           \* the value of the memo: null or the band
  \* the messages written with console.warn, in order
  console

optVars == <<optArgs, opt, optPc, optReturn, optEvaluated>>
covVars == <<covArgs, covPc, covLocals, covReturn>>
smpVars == <<smpArgs, smpPc, smpLocals, smpSamples, smpReturn>>
rssVars == <<rssArgs, rssPc, rssResult>>
dsgVars == <<dsgDoseInput, dsgParams, dsgExpectedInfo, dsgPrecisionMetrics,
            dsgSamples, dsgConfidenceBands>>
appState == <<appDoseInput, appParams, appExperimentData, appOptimizedParams,
              appStandardErrors, appCovMatrix, appIsOptimizing>>
appVars == <<appState, appTimers, appAlert, appInvoked>>
emxVars == <<emxParams, emxCalls>>
bndVars == <<bndArgs, bndPc, bndSamples, bndSorted, bndBand, bndReturn>>
fnVars == <<emxVars, bndVars>>
vars == <<optVars, covVars, smpVars, rssVars, dsgVars, appVars, fnVars, console>>

\* JavaScript null
Null == [null |-> TRUE]

(***************************************************************************)
(* Model evaluator and objective                                           *)
(***************************************************************************)
\* const E0 = 100 (fixed baseline)
E0 == Num(100)

\* emaxModel(dose, E0, Emax, ED50); Math.pow(x, h) with h = 1 is x
\* num = Emax * Math.pow(dose, h) with the Hill coefficient h = 1
EmaxNumeratorUnitPower(emax, dose) == emax

EmaxNumerator(emax, dose) == Mul(emax, dose)

\* den = Math.pow(ED50, h) + Math.pow(dose, h) with h = 1
EmaxDenominator(ed50, dose) == Add(ed50, dose)

\* the guard den > 0 of the quotient
EmaxDivides(den) == Gt(den, Zero)

EmaxResponse(e0, num, den) ==
  Sub(e0, IF EmaxDivides(den) THEN Div(num, den) ELSE Zero)

emaxModelRising(dose, e0, emax, ed50) ==
  Add(e0, Div(Mul(emax, dose), Add(ed50, dose)))

emaxModel(dose, e0, emax, ed50) ==
  EmaxResponse(e0, EmaxNumerator(emax, dose), EmaxDenominator(ed50, dose))

\* predicted[i] of a JavaScript array: undefined past the end, and
\* obs.y - undefined is NaN
ArrayGet(predicted, i) == IF i <= Len(predicted) THEN predicted[i] ELSE NaN

\* the reduction with the residuals summed unsquared
RECURSIVE ReduceResiduals(_, _, _, _)
ReduceResiduals(observed, predicted, i, sum) ==
  IF i > Len(observed) THEN sum
  ELSE ReduceResiduals(observed, predicted, i + 1,
                       Add(sum, Sub(observed[i].y, ArrayGet(predicted, i))))

\* observed.reduce((sum, obs, i) => sum + (obs.y - predicted[i])^2, 0),
\* the callback run on observed[i..] from the accumulator sum
RECURSIVE ReduceRSS(_, _, _, _)
ReduceRSS(observed, predicted, i, sum) ==
  IF i > Len(observed) THEN sum
  ELSE LET diff == Sub(observed[i].y, ArrayGet(predicted, i))
       IN ReduceRSS(observed, predicted, i + 1, Add(sum, Mul(diff, diff)))

calculateRSS(observed, predicted) == ReduceRSS(observed, predicted, 1, Zero)

\* data.map(d => emaxModel(d.x, E0, Emax, ED50))
Predict(data, emax, ed50) ==
  [i \in 1..Len(data) |-> emaxModel(data[i].x, E0, emax, ed50)]

(***************************************************************************)
(* optimizeParameters                                                      *)
(***************************************************************************)
\* const delta = 0.001
delta == Dec(1, 3)
\* bounds of the box the iterates are clamped into
EmaxLo == Num(0)
EmaxHi == Num(100)
ED50Lo == Dec(1, 2)
ED50Hi == Num(10)
\* learningRate *= 0.95 when iter % 100 === 0
DecayFactor == Dec(95, 2)
DecayEvery == 100

\* lines 47-49: the locals before the loop
OptStart(initialParams, learningRate) ==
  [Emax |-> initialParams.Emax, ED50 |-> initialParams.ED50,
   bestParams |-> [Emax |-> initialParams.Emax, ED50 |-> initialParams.ED50],
   bestRSS |-> PInf, learningRate |-> learningRate, iter |-> 0]

\* line 53: the RSS at the current point
OptRSS(data, s) == calculateRSS(data, Predict(data, s.Emax, s.ED50))

\* the test of line 55 with <= for <: a tie would replace the recorded point
OptImprovesOnTie(rss, bestRSS) == Le(rss, bestRSS)

\* the test of line 55 with every point recorded, better or not
OptImprovesAlways(rss, bestRSS) == TRUE

\* line 55: the test that records a new best point
OptImproves(rss, bestRSS) == Lt(rss, bestRSS)

\* lines 71-72: Math.max(lo, Math.min(hi, v))
Clamp(lo, hi, v) == MathMax(lo, MathMin(hi, v))

\* lines 55-58 and 71-77: the locals after the iteration
OptUpdate(s, rss, better, gradEmax, gradED50) ==
  [Emax |-> Clamp(EmaxLo, EmaxHi, Sub(s.Emax, Mul(s.learningRate, gradEmax))),
   ED50 |-> Clamp(ED50Lo, ED50Hi, Sub(s.ED50, Mul(s.learningRate, gradED50))),
   bestParams |-> IF better THEN [Emax |-> s.Emax, ED50 |-> s.ED50] ELSE s.bestParams,
   bestRSS |-> IF better THEN rss ELSE s.bestRSS,
   learningRate |-> IF s.iter % DecayEvery = 0
                      THEN Mul(s.learningRate, DecayFactor) ELSE s.learningRate,
   iter |-> s.iter + 1]

\* lines 61-68: the finite-difference gradients from the RSS at the point
OptGradients(data, s, rss, d) ==
  OptUpdate(s, rss, OptImproves(rss, s.bestRSS),
            Div(Sub(calculateRSS(data, Predict(data, Add(s.Emax, d), s.ED50)), rss), d),
            Div(Sub(calculateRSS(data, Predict(data, s.Emax, Add(s.ED50, d))), rss), d))

\* lines 52-77: one iteration of the loop body, and iter++
OptIteration(data, s) == OptGradients(data, s, OptRSS(data, s), delta)

\* the test of line 51 with an exit as soon as Emax sits on its upper bound
OptContinuesOffBound(s, iterations) == s.iter < iterations /\ s.Emax # EmaxHi

\* line 51: the loop test iter < iterations
OptContinues(s, iterations) == s.iter < iterations

\* lines 51-80: the loop run to its end, and the return value
RECURSIVE OptLoop(_, _, _)
OptLoop(data, s, iterations) ==
  IF OptContinues(s, iterations) THEN OptLoop(data, OptIteration(data, s), iterations)
  ELSE s.bestParams

optimizeParameters(data, initialParams, iterations, learningRate) ==
  OptLoop(data, OptStart(initialParams, learningRate), iterations)

(***************************************************************************)
(* calculateCovarianceMatrix                                               *)
(***************************************************************************)
\* calculateRSS(data, data.map(d => emaxModel(d.x, E0, emax, ed50)))
RSSAt(data, emax, ed50) == calculateRSS(data, Predict(data, emax, ed50))

\* line 124: the locals the rest of the function reads
CovLocals(sigma2, H11, H22, H12) ==
  [sigma2 |-> sigma2, H11 |-> H11, H22 |-> H22, H12 |-> H12,
   det |-> Sub(Mul(H11, H22), Mul(H12, H12))]

\* lines 93-121: sigma2 and the halved second differences, d being delta
CovDifferences(data, emax, ed50, rss, d) ==
  CovLocals(Div(rss, Num(Len(data) - 2)),
            Div(Div(Sub(Add(RSSAt(data, Add(emax, d), ed50),
                            RSSAt(data, Sub(emax, d), ed50)),
                        Mul(Num(2), rss)),
                    Mul(d, d)),
                Num(2)),
            Div(Div(Sub(Add(RSSAt(data, emax, Add(ed50, d)),
                            RSSAt(data, emax, Sub(ed50, d))),
                        Mul(Num(2), rss)),
                    Mul(d, d)),
                Num(2)),
            Div(Div(Add(Sub(Sub(RSSAt(data, Add(emax, d), Add(ed50, d)),
                                RSSAt(data, Add(emax, d), Sub(ed50, d))),
                            RSSAt(data, Sub(emax, d), Add(ed50, d))),
                        RSSAt(data, Sub(emax, d), Sub(ed50, d))),
                    Mul(Mul(Num(4), d), d)),
                Num(2)))

\* lines 90-124: sigma2, the halved finite-difference Hessian and its
\* determinant.  Lines 91-92 sum the squared residuals d.y - predicted[i] in
\* the order calculateRSS does.
CovHessian(data, params) ==
  CovDifferences(data, params.Emax, params.ED50,
                 RSSAt(data, params.Emax, params.ED50), delta)

\* v || fallback: the fallback when v is 0 or NaN
OrElse(v, fallback) == IF IsNaN(v) \/ v = Zero THEN fallback ELSE v

\* line 126: the test that selects the fallback
CovDegenerate(l) == Le(l.det, Zero)

WarnHessian == "Hessian not positive definite, using approximate covariance"

\* the fallback without Math.abs: the plain quotients sigma2 / Hii
CovFallbackSigned(l) ==
  [standardErrors |->
     [Emax |-> OrElse(MathSqrt(Abs(Div(l.sigma2, l.H11))), Num(1)),
      ED50 |-> OrElse(MathSqrt(Abs(Div(l.sigma2, l.H22))), Dec(1, 1))],
   covMatrix |->
     [var_Emax |-> Div(l.sigma2, l.H11),
      var_ED50 |-> Div(l.sigma2, l.H22),
      cov_Emax_ED50 |-> Zero]]

\* lines 129-139: the diagonal-only fallback
CovFallback(l) ==
  [standardErrors |->
     [Emax |-> OrElse(MathSqrt(Abs(Div(l.sigma2, l.H11))), Num(1)),
      ED50 |-> OrElse(MathSqrt(Abs(Div(l.sigma2, l.H22))), Dec(1, 1))],
   covMatrix |->
     [var_Emax |-> Abs(Div(l.sigma2, l.H11)),
      var_ED50 |-> Abs(Div(l.sigma2, l.H22)),
      cov_Emax_ED50 |-> Zero]]

\* lines 148-157: the object returned past the test
CovReturned(var_Emax, var_ED50, cov_Emax_ED50) ==
  [standardErrors |->
     [Emax |-> MathSqrt(Abs(var_Emax)), ED50 |-> MathSqrt(Abs(var_ED50))],
   covMatrix |->
     [var_Emax |-> var_Emax, var_ED50 |-> var_ED50, cov_Emax_ED50 |-> cov_Emax_ED50]]

\* lines 143-157: sigma^2 * inv(H)
CovInverse(l) ==
  CovReturned(Div(Mul(l.sigma2, l.H22), l.det),
              Div(Mul(l.sigma2, l.H11), l.det),
              Div(Mul(Neg(l.sigma2), l.H12), l.det))

\* lines 126-157: the return value, from the locals of line 124
CovResult(l) == IF CovDegenerate(l) THEN CovFallback(l) ELSE CovInverse(l)

calculateCovarianceMatrix(data, params) == CovResult(CovHessian(data, params))

(***************************************************************************)
(* sampleMultivariateNormal                                                *)
(***************************************************************************)
\* line 170, from L11 and L21
SmpFactor(var_ED50, L11, L21) ==
  [L11 |-> L11, L21 |-> L21, L22 |-> MathSqrt(Sub(var_ED50, Mul(L21, L21)))]

\* line 169, from L11
SmpColumn(covMatrix, L11) ==
  SmpFactor(covMatrix.var_ED50, L11, Div(covMatrix.cov_Emax_ED50, L11))

\* lines 168-170: the Cholesky factor of the 2x2 covariance
SmpCholesky(covMatrix) == SmpColumn(covMatrix, MathSqrt(covMatrix.var_Emax))

\* line 172: isNaN(L22) || L22 <= 0
SmpRejects(l) == IsNaN(l.L22) \/ Le(l.L22, Zero)

WarnCovariance == "Covariance matrix not positive definite"

\* lines 186-189: one correlated sample from the deviates z1, z2
SmpSample(mean, l, z1, z2) ==
  [Emax |-> Add(mean.Emax, Mul(l.L11, z1)),
   ED50 |-> Add(Add(mean.ED50, Mul(l.L21, z1)), Mul(l.L22, z2))]

(***************************************************************************)
(* The design application: expected information and precision              *)
(***************************************************************************)
\* parseFloat(d.trim()) on the pieces of text the model types into the box
ParseFloat(piece) ==
  CASE piece = "0" -> Zero
    [] piece = "0.5" -> Dec(5, 1)
    [] piece \in {"1", " 1"} -> Num(1)
    [] piece = " 2" -> Num(2)
    [] piece \in {"3", " 3"} -> Num(3)
    [] piece \in {"4", " 4"} -> Num(4)
    [] piece = "-1" -> Num(-1)
    [] piece = "Infinity" -> PInf
    [] OTHER -> NaN

\* doseInput.split(',').map(d => parseFloat(d.trim())).filter(d => !isNaN(d) && d >= 0)
ParseDoses(input) ==
  LET parsed == [i \in 1..Len(input) |-> ParseFloat(input[i])]
      Keep(d) == ~IsNaN(d) /\ Ge(d, Zero)
  IN SelectSeq(parsed, Keep)

\* lines 69-71: the three sums with one dose's derivatives added
InfoAdd(sums, dy_dlogEmax, dy_dlogED50) ==
  [I11 |-> Add(sums.I11, Mul(dy_dlogEmax, dy_dlogEmax)),
   I12 |-> Add(sums.I12, Mul(dy_dlogEmax, dy_dlogED50)),
   I22 |-> Add(sums.I22, Mul(dy_dlogED50, dy_dlogED50))]

\* lines 60-67: the derivatives at the dose x, den being ED50 + x
InfoDose(sums, params, x, den) ==
  InfoAdd(sums, Mul(Neg(Div(x, den)), params.Emax),
          Div(Mul(Mul(params.Emax, x), params.ED50), Mul(den, den)))

\* lines 58-72 of calculateExpectedInformation: the loop body run on
\* doses[k..], from the sums so far
RECURSIVE InfoSums(_, _, _, _)
InfoSums(doses, params, k, sums) ==
  IF k > Len(doses) THEN sums
  ELSE InfoSums(doses, params, k + 1,
                InfoDose(sums, params, doses[k], Add(params.ED50, doses[k])))

\* line 81: the three entries and the determinant
InfoDet(I11, I12, I22) ==
  [I11 |-> I11, I12 |-> I12, I22 |-> I22, det |-> Sub(Mul(I11, I22), Mul(I12, I12))]

\* lines 76-78: the sums scaled by 1/sigma^2
InfoScaled(sums, sigma2) ==
  InfoDet(Div(sums.I11, sigma2), Div(sums.I12, sigma2), Div(sums.I22, sigma2))

\* lines 53-81: the information matrix scaled by 1/sigma^2 and its determinant
\* (logEmax and logED50 of lines 49-50 are never used)
InfoMatrix(doses, params, sigma) ==
  InfoScaled(InfoSums(doses, params, 1, [I11 |-> Zero, I12 |-> Zero, I22 |-> Zero]),
             Mul(sigma, sigma))

\* line 83: det <= 0 || I11 <= 0 || I22 <= 0
InfoRejects(m) == Le(m.det, Zero) \/ Le(m.I11, Zero) \/ Le(m.I22, Zero)

WarnFisher == "Fisher information matrix not positive definite"

\* lines 83-100: null, or the covariance on the natural scale by the delta
\* method
InfoCovariance(m, params) ==
  IF InfoRejects(m) THEN Null
  ELSE [var_Emax |-> Mul(Mul(params.Emax, params.Emax), Div(m.I22, m.det)),
        var_ED50 |-> Mul(Mul(params.ED50, params.ED50), Div(m.I11, m.det)),
        cov_Emax_ED50 |-> Mul(Mul(params.Emax, params.ED50), Div(Neg(m.I12), m.det))]

\* calculateExpectedInformation(doses, params, sigma)
calculateExpectedInformation(doses, params, sigma) ==
  InfoCovariance(InfoMatrix(doses, params, sigma), params)

\* the sigma the design application passes (line 206)
DesignSigma == Num(7)

\* useMemo expectedInfo (lines 204-207)
expectedInfo(doses, params) ==
  IF Len(doses) = 0 THEN Null
  ELSE calculateExpectedInformation(doses, params, DesignSigma)

\* the call of line 206 wrote the warning: it was made and returned null
ExpectedInfoWarns(doses, info) == Len(doses) # 0 /\ info = Null

\* the threshold of line 215, in percent
PoorRSE == Num(50)

\* line 215 with the ED50 term left out
IsPoorEmaxOnly(rseEmax, rseED50) == Gt(rseEmax, PoorRSE)

\* line 215: rseEmax > 50 || rseED50 > 50
IsPoor(rseEmax, rseED50) == Gt(rseEmax, PoorRSE) \/ Gt(rseED50, PoorRSE)

\* lines 217-222: the object precisionMetrics holds
PrecisionOf(rseEmax, rseED50, isPoor) ==
  [rseEmax |-> rseEmax, rseED50 |-> rseED50, isPoor |-> isPoor,
   color |-> IF isPoor THEN "#ef4444" ELSE "#8884d8"]

PrecisionFlagged(rseEmax, rseED50) ==
  PrecisionOf(rseEmax, rseED50, IsPoor(rseEmax, rseED50))

\* useMemo precisionMetrics (lines 210-223)
precisionMetrics(info, params) ==
  IF info = Null THEN Null
  ELSE PrecisionFlagged(Mul(Div(MathSqrt(info.var_Emax), params.Emax), Num(100)),
                        Mul(Div(MathSqrt(info.var_ED50), params.ED50), Num(100)))

\* Array.from({ length: 201 }, (_, i) => (i / 200) * maxDose)
GridLast == 200

\* an array, by its length
ArrayOf(length) == [length |-> length]

\* numSamples of the call of line 233
BandDraws == 200

\* lines 105-134 as the memo sees them: the empty array when the Cholesky
\* factor is rejected (line 116), numSamples pushed draws otherwise
DsgSampled(covMatrix, numSamples) ==
  ArrayOf(IF SmpRejects(SmpCholesky(covMatrix)) THEN 0 ELSE numSamples)

\* line 233, reached only below the guard of line 227
DsgSamples(info) == IF info = Null THEN Null ELSE DsgSampled(info, BandDraws)

\* useMemo confidenceBands (lines 226-257): null without expected information
\* and without samples, else one entry per point of the grid of line 230
confidenceBands(info, samples) ==
  IF info = Null THEN Null
  ELSE IF samples.length = 0 THEN Null
  ELSE ArrayOf(GridLast + 1)

\* the warnings one render writes: line 84, or line 117
DsgWarnings(doses, info, samples) ==
  IF ExpectedInfoWarns(doses, info) THEN << WarnFisher >>
  ELSE IF info # Null /\ samples.length = 0 THEN << WarnCovariance >>
  ELSE << >>

(***************************************************************************)
(* Inputs of the optimizer runs                                            *)
(***************************************************************************)
MaxIterations == 3

Obs(x, y) == [x |-> x, y |-> y]
Params(emax, ed50) == [Emax |-> emax, ED50 |-> ed50]

\* datasets: empty, one and two observations, and runs of three doses
DataEmpty == << >>
DataOne == << Obs(Num(1), Num(68)) >>
DataOneLow == << Obs(Num(1), Num(0)) >>
DataTwo == << Obs(Num(1), Num(68)), Obs(Num(2), Dec(5428, 2)) >>
DataThree == << Obs(Dec(5, 1), Num(82)), Obs(Num(1), Num(65)), Obs(Num(2), Num(56)) >>
DataFlat == << Obs(Num(0), Num(97)), Obs(Num(0), Num(103)), Obs(Num(0), Num(101)) >>

OptDataSets == {DataEmpty, DataOne, DataOneLow, DataThree, DataFlat}
\* starting points inside the box (the sliders' range) and outside it
OptInitialParams ==
  {Params(Num(60), Num(2)), Params(Num(80), Dec(15, 1)), Params(Num(100), Dec(5, 1)),
   Params(Num(150), Dec(5, 1)), Params(Num(60), Num(-1)), Params(Num(-5), Num(20))}
\* the default learning rate and the one the app passes
OptLearningRates == {Dec(1, 2), Dec(5, 2)}

EmxIdle == emxParams = Null /\ emxCalls = << >>

BndIdle ==
  /\ bndArgs = Null /\ bndPc = "idle" /\ bndSamples = << >>
  /\ bndSorted = << >> /\ bndBand = << >> /\ bndReturn = Null

FnIdle == EmxIdle /\ BndIdle

OptIdle ==
  /\ optArgs = Null /\ opt = Null /\ optPc = "idle"
  /\ optReturn = Null /\ optEvaluated = << >>

CovIdle ==
  /\ covArgs = Null /\ covPc = "idle" /\ covLocals = Null /\ covReturn = Null

SmpIdle ==
  /\ smpArgs = Null /\ smpPc = "idle" /\ smpLocals = Null
  /\ smpSamples = << >> /\ smpReturn = Null

RssIdle == rssArgs = Null /\ rssPc = "idle" /\ rssResult = Null

DsgIdle ==
  /\ dsgDoseInput = Null /\ dsgParams = Null
  /\ dsgExpectedInfo = Null /\ dsgPrecisionMetrics = Null
  /\ dsgSamples = Null /\ dsgConfidenceBands = Null

AppIdle ==
  /\ appDoseInput = Null /\ appParams = Null /\ appExperimentData = Null
  /\ appOptimizedParams = Null /\ appStandardErrors = Null /\ appCovMatrix = Null
  /\ appIsOptimizing = Null /\ appTimers = Null /\ appAlert = Null
  /\ appInvoked = Null

OptInit ==
  /\ CovIdle /\ SmpIdle /\ RssIdle /\ DsgIdle /\ AppIdle /\ FnIdle /\ console = << >>
  /\ optArgs \in [data : OptDataSets, initialParams : OptInitialParams,
                  iterations : 0..MaxIterations, learningRate : OptLearningRates]
  /\ opt = OptStart(optArgs.initialParams, optArgs.learningRate)
  /\ optPc = "loop"
  /\ optReturn = Null
  /\ optEvaluated = << >>

\* for (iter = 0; iter < iterations; iter++) { ... }
OptIterate ==
  /\ optPc = "loop"
  /\ OptContinues(opt, optArgs.iterations)
  /\ opt' = OptIteration(optArgs.data, opt)
  /\ optEvaluated' = Append(optEvaluated,
                            [Emax |-> opt.Emax, ED50 |-> opt.ED50,
                             rss |-> OptRSS(optArgs.data, opt)])
  /\ UNCHANGED <<optArgs, optPc, optReturn, covVars, smpVars, rssVars, dsgVars, appVars, console, fnVars>>

\* return bestParams
OptReturn ==
  /\ optPc = "loop"
  /\ ~OptContinues(opt, optArgs.iterations)
  /\ optReturn' = opt.bestParams
  /\ optPc' = "returned"
  /\ UNCHANGED <<optArgs, opt, optEvaluated, covVars, smpVars, rssVars, dsgVars, appVars, console, fnVars>>

OptNext == OptIterate \/ OptReturn

SpecOptimizer == OptInit /\ [][OptNext]_vars

\* an iteration is possible exactly while the call is in its loop and the
\* loop test holds
OptIterateEnabled == optPc = "loop" /\ OptContinues(opt, optArgs.iterations)

\* the call runs to its end: the loop body and the return are synchronous
\* code that nothing suspends, so both steps are weakly fair.  For OptIterate
\* this is WF_vars(OptIterate) with ENABLED <<OptIterate>>_vars written out.
SpecOptimizerRuns ==
  /\ SpecOptimizer
  /\ WF_vars(OptReturn)
  /\ ([]<>(~OptIterateEnabled) \/ []<><<OptIterate>>_vars)

(***************************************************************************)
(* Runs of calculateCovarianceMatrix                                       *)
(***************************************************************************)
\* two observations on the curve of Emax = 80, ED50 = 1, and off it
DataTwoExact == << Obs(Num(1), Num(60)), Obs(Num(3), Num(40)) >>
DataTwoSame == << Obs(Num(1), Num(60)), Obs(Num(1), Num(61)) >>
\* three observations on that curve, near it, and placebo only
DataThreeExact == << Obs(Num(1), Num(60)), Obs(Num(3), Num(40)), Obs(Num(4), Num(36)) >>
DataThreeNear ==
  << Obs(Num(1), Dec(6001, 2)), Obs(Num(3), Dec(3999, 2)), Obs(Num(4), Dec(3601, 2)) >>
DataPlacebo == << Obs(Num(0), Num(100)), Obs(Num(0), Num(100)), Obs(Num(0), Num(100)) >>
\* responses far below what the curve predicts
DataThreeLow == << Obs(Dec(5, 1), Num(50)), Obs(Num(1), Num(38)), Obs(Num(2), Num(24)) >>
DataFour ==
  << Obs(Dec(5, 1), Num(75)), Obs(Num(1), Num(61)), Obs(Num(2), Num(45)), Obs(Num(4), Num(37)) >>
\* no response at any dose: every observation at the baseline
DataNoEffect == << Obs(Num(1), Num(100)), Obs(Num(2), Num(100)), Obs(Num(4), Num(100)) >>

CovDataSets ==
  {DataEmpty, DataOne, DataTwo, DataTwoExact, DataTwoSame, DataThree, DataThreeExact,
   DataThreeNear, DataPlacebo, DataFlat, DataThreeLow, DataFour, DataNoEffect}
CovParams ==
  {Params(Num(80), Num(1)), Params(Num(80), Dec(15, 1)), Params(Num(60), Num(2)),
   Params(Num(100), Dec(5, 1)), Params(Num(40), Num(4)), Params(Num(0), Num(1))}

CovInit ==
  /\ OptIdle /\ SmpIdle /\ RssIdle /\ DsgIdle /\ AppIdle /\ FnIdle /\ console = << >>
  /\ covArgs \in [data : CovDataSets, params : CovParams]
  /\ covPc = "call"
  /\ covLocals = Null
  /\ covReturn = Null

\* the call, to its return
CalculateCovarianceMatrix ==
  /\ covPc = "call"
  /\ \E l \in {CovHessian(covArgs.data, covArgs.params)} :
        /\ covLocals' = l
        /\ console' = IF CovDegenerate(l) THEN Append(console, WarnHessian) ELSE console
        /\ covReturn' = CovResult(l)
  /\ covPc' = "returned"
  /\ UNCHANGED <<covArgs, optVars, smpVars, rssVars, dsgVars, appVars, fnVars>>

CovNext == CalculateCovarianceMatrix

SpecCovariance == CovInit /\ [][CovNext]_vars

(***************************************************************************)
(* Runs of sampleMultivariateNormal                                        *)
(***************************************************************************)
MaxSamples == 2

CovM(varA, varB, covAB) == [var_Emax |-> varA, var_ED50 |-> varB, cov_Emax_ED50 |-> covAB]

\* the calls of calculateCovarianceMatrix whose covariance is sampled
SmpEstimated ==
  {<< DataThree, Params(Num(80), Num(1)) >>, << DataThree, Params(Num(60), Num(2)) >>,
   << DataFlat, Params(Num(60), Num(2)) >>, << DataPlacebo, Params(Num(60), Num(2)) >>,
   << DataTwoExact, Params(Num(80), Num(1)) >>}

\* covariances given directly: positive definite, indefinite, singular, with
\* a zero or negative variance; and covariances the estimator returns
SmpCovMatrices ==
  {CovM(Num(1), Num(1), Dec(5, 1)), CovM(Num(4), Num(1), Num(1)),
   CovM(Num(1), Num(1), Num(5)), CovM(Num(1), Num(1), Num(1)),
   CovM(Zero, Num(1), Zero), CovM(Zero, Num(1), Num(1)),
   CovM(Num(-1), Num(1), Zero), CovM(Num(4), Num(-1), Zero)}
  \cup {calculateCovarianceMatrix(c[1], c[2]).covMatrix : c \in SmpEstimated}
SmpMeans == {Params(Num(80), Num(1)), Params(Num(60), Num(2))}
\* pairs (z1, z2) of standard normal deviates the Box-Muller step can give
SmpDeviates ==
  {<<Num(1), Zero>>, <<Dec(-5, 1), Dec(15, 1)>>, <<Num(2), Num(-1)>>}

SmpInit ==
  /\ OptIdle /\ CovIdle /\ RssIdle /\ DsgIdle /\ AppIdle /\ FnIdle /\ console = << >>
  /\ smpArgs \in [mean : SmpMeans, covMatrix : SmpCovMatrices, numSamples : 0..MaxSamples]
  /\ smpPc = "call"
  /\ smpLocals = Null
  /\ smpSamples = << >>
  /\ smpReturn = Null

\* lines 163-176: the decomposition, and the early return of []
SmpDecompose ==
  /\ smpPc = "call"
  /\ \E l \in {SmpCholesky(smpArgs.covMatrix)} :
        /\ smpLocals' = l
        /\ IF SmpRejects(l)
             THEN /\ console' = Append(console, WarnCovariance)
                  /\ smpReturn' = << >>
                  /\ smpPc' = "returned"
             ELSE /\ smpPc' = "loop"
                  /\ UNCHANGED <<console, smpReturn>>
  /\ UNCHANGED <<smpArgs, smpSamples, optVars, covVars, rssVars, dsgVars, appVars, fnVars>>

\* for (i = 0; i < numSamples; i++) { ...; samples.push(...) }
SmpDraw ==
  /\ smpPc = "loop"
  /\ Len(smpSamples) < smpArgs.numSamples
  /\ \E z \in SmpDeviates :
       smpSamples' = Append(smpSamples, SmpSample(smpArgs.mean, smpLocals, z[1], z[2]))
  /\ UNCHANGED <<smpArgs, smpPc, smpLocals, smpReturn, optVars, covVars, rssVars, dsgVars, appVars, console, fnVars>>

\* return samples
SmpReturn ==
  /\ smpPc = "loop"
  /\ ~(Len(smpSamples) < smpArgs.numSamples)
  /\ smpReturn' = smpSamples
  /\ smpPc' = "returned"
  /\ UNCHANGED <<smpArgs, smpLocals, smpSamples, optVars, covVars, rssVars, dsgVars, appVars, console, fnVars>>

SmpNext == SmpDecompose \/ SmpDraw \/ SmpReturn

SpecSampler == SmpInit /\ [][SmpNext]_vars

(***************************************************************************)
(* Calls of calculateRSS                                                   *)
(***************************************************************************)
\* one response of 2^-600, whose square is below every double, and two
\* responses of 2^1000, whose square is above every double
DataTiny == << Obs(Num(1), PowerOfTwo(-600)) >>
DataHuge == << Obs(Num(1), PowerOfTwo(1000)), Obs(Num(2), PowerOfTwo(1000)) >>

\* observed: datasets of zero to three observations
RssObserved ==
  {DataEmpty, DataOne, DataTwoExact, DataThree, DataThreeExact, DataPlacebo,
   DataTiny, DataHuge}
\* predicted: arrays of zero to four numbers, among them the model's
\* predictions for DataThreeExact
RssPredicted ==
  {<< >>, << Zero >>, << Num(60) >>, << Num(70) >>, << Num(60), Num(40) >>,
   << Num(70), Num(35) >>, << Neg(PowerOfTwo(1000)), PowerOfTwo(1000) >>,
   << Num(60), Num(40), Num(36) >>, << Num(80), Num(65), Num(55) >>,
   Predict(DataThreeExact, Num(60), Num(2)),
   << Num(60), Num(40), Num(36), Num(30) >>, << Num(100), Num(100), Num(100), Num(100) >>}

RssInit ==
  /\ OptIdle /\ CovIdle /\ SmpIdle /\ DsgIdle /\ AppIdle /\ FnIdle /\ console = << >>
  /\ rssArgs \in [observed : RssObserved, predicted : RssPredicted]
  /\ rssPc = "call"
  /\ rssResult = Null

\* the call, to its return: the function has no throw statement, and reduce
\* and the arithmetic on array elements raise nothing
CalculateRSS ==
  /\ rssPc = "call"
  /\ rssResult' = [kind |-> "return",
                   value |-> calculateRSS(rssArgs.observed, rssArgs.predicted)]
  /\ rssPc' = "returned"
  /\ UNCHANGED <<rssArgs, optVars, covVars, smpVars, dsgVars, appVars, console, fnVars>>

RssNext == CalculateRSS

SpecRSS == RssInit /\ [][RssNext]_vars

(***************************************************************************)
(* The design application                                                  *)
(***************************************************************************)
\* the console is cut off after this many warnings
MaxConsole == 2

\* texts typed into the dose box, split at the commas
DsgDoseInputs ==
  {<< "" >>, << "1" >>, << "1", "1", "1", "1" >>, << "3", "3" >>, << "0", "0" >>,
   << "0.5", "1", " 2", "4" >>, << "1", "abc", " 2" >>, << "-1", "3" >>,
   << "0.5", "4" >>, << "1", "Infinity" >>}
\* slider positions: Emax 0..100 in steps of 0.5, ED50 0.1..10 in steps of 0.1
DsgEmaxValues == {Zero, Num(50), Num(80), Num(100)}
DsgED50Values == {Dec(1, 1), Dec(5, 1), Dec(15, 1), Num(2)}

\* the render that follows a change of state: the three memoised values
DsgRender(input, params) ==
  \E doses \in {ParseDoses(input)} :
    \E info \in {expectedInfo(doses, params)} :
      \E samples \in {DsgSamples(info)} :
        /\ dsgExpectedInfo' = info
        /\ dsgPrecisionMetrics' = precisionMetrics(info, params)
        /\ dsgSamples' = samples
        /\ dsgConfidenceBands' = confidenceBands(info, samples)
        /\ \E warned \in {DsgWarnings(doses, info, samples)} :
             /\ Len(console) + Len(warned) <= MaxConsole
             /\ console' = console \o warned

\* useState({Emax: 100, ED50: 0.5}), useState(''), and the first render
DsgInit ==
  /\ OptIdle /\ CovIdle /\ SmpIdle /\ RssIdle /\ AppIdle /\ FnIdle /\ console = << >>
  /\ dsgDoseInput = << "" >>
  /\ dsgParams = Params(Num(100), Dec(5, 1))
  /\ dsgExpectedInfo = Null
  /\ dsgPrecisionMetrics = Null
  /\ dsgSamples = Null
  /\ dsgConfidenceBands = Null

\* onChange of the dose box: setDoseInput(e.target.value)
DsgSetDoseInput ==
  \E input \in DsgDoseInputs :
    /\ input # dsgDoseInput
    /\ dsgDoseInput' = input
    /\ DsgRender(input, dsgParams)
    /\ UNCHANGED <<dsgParams, optVars, covVars, smpVars, rssVars, appVars, fnVars>>

\* onChange of a slider: updateParam(key, value)
DsgUpdateParam ==
  \E key \in {"Emax", "ED50"} :
    \E value \in IF key = "Emax" THEN DsgEmaxValues ELSE DsgED50Values :
      /\ value # dsgParams[key]
      /\ dsgParams' = [dsgParams EXCEPT ![key] = value]
      /\ DsgRender(dsgDoseInput, dsgParams')
      /\ UNCHANGED <<dsgDoseInput, optVars, covVars, smpVars, rssVars, appVars, fnVars>>

DsgNext == DsgSetDoseInput \/ DsgUpdateParam

SpecDesign == DsgInit /\ [][DsgNext]_vars

(***************************************************************************)
(* The fitting application                                                 *)
(***************************************************************************)
\* iterations the application asks of the optimizer (2000 at line 289)
AppIterations == 2
\* optimizations followed to their end in one session
MaxOptimizeClicks == 1
\* callbacks of setTimeout followed while they are pending
MaxPendingTimers == 2

\* useState({ E0: 100, Emax: 80, ED50: 1.5 })
trueParams == [E0 |-> Num(100), Emax |-> Num(80), ED50 |-> Dec(15, 1)]
\* the learning rate of line 289 and the noise level of line 268
AppLearningRate == Dec(5, 2)
AppNoiseLevel == Num(5)

AlertDoses == "Please enter valid dose values (comma-separated)"
AlertExperiment == "Please run an experiment first"
\* no alert() was shown yet
NoAlert == ""

\* addNoise(value, noiseLevel) with z the value randn() returned
addNoise(value, noiseLevel, z) == Add(value, Mul(z, noiseLevel))

\* texts typed into the dose box, split at the commas; the first is the default
AppDefaultDoseInput == << "0.5", " 1", " 2", " 3", " 4" >>
AppDoseInputs == {AppDefaultDoseInput, << "" >>, << "1", " 2" >>}
\* slider positions
AppEmaxValues == {Num(80)}
AppED50Values == {Num(2)}
\* the values randn() returns during one experiment, dose by dose: two runs
\* that differ from the third dose on
AppRandn ==
  {<< Dec(6, 1), Dec(-4, 1), Zero, Zero, Zero >>,
   << Dec(6, 1), Dec(-4, 1), Dec(8, 1), Dec(-2, 1), Dec(4, 1) >>}

\* the button drawn without its disabled attribute
OptimizeNeverDisabled(isOptimizing) == FALSE

\* line 425: disabled={isOptimizing}
OptimizeDisabled(isOptimizing) == isOptimizing

AppInit ==
  /\ OptIdle /\ CovIdle /\ SmpIdle /\ RssIdle /\ DsgIdle /\ FnIdle /\ console = << >>
  /\ appDoseInput = AppDefaultDoseInput
  /\ appParams = Params(Num(60), Num(2))
  /\ appExperimentData = << >>
  /\ appOptimizedParams = Null
  /\ appStandardErrors = Null
  /\ appCovMatrix = Null
  /\ appIsOptimizing = FALSE
  /\ appTimers = << >>
  /\ appAlert = NoAlert
  /\ appInvoked = << >>

\* onChange of the dose box: setDoseInput(e.target.value)
AppSetDoseInput ==
  \E input \in AppDoseInputs :
    /\ input # appDoseInput
    /\ appDoseInput' = input
    /\ UNCHANGED <<appParams, appExperimentData, appOptimizedParams, appStandardErrors,
                   appCovMatrix, appIsOptimizing, appTimers, appAlert, appInvoked>>
    /\ UNCHANGED <<optVars, covVars, smpVars, rssVars, dsgVars, console, fnVars>>

\* onChange of a slider: updateParam(key, value)
AppUpdateParam ==
  \E key \in {"Emax", "ED50"} :
    \E value \in IF key = "Emax" THEN AppEmaxValues ELSE AppED50Values :
      /\ value # appParams[key]
      /\ appParams' = [appParams EXCEPT ![key] = value]
      /\ UNCHANGED <<appDoseInput, appExperimentData, appOptimizedParams,
                     appStandardErrors, appCovMatrix, appIsOptimizing, appTimers,
                     appAlert, appInvoked>>
      /\ UNCHANGED <<optVars, covVars, smpVars, rssVars, dsgVars, console, fnVars>>

\* lines 266-267: the observation simulated at one dose
Observe(dose, z) ==
  Obs(dose, addNoise(emaxModel(dose, trueParams.E0, trueParams.Emax, trueParams.ED50),
                     AppNoiseLevel, z))

\* the simulation with the first dose left out
SimulateFromSecond(doses, z) == [i \in 1..(Len(doses) - 1) |-> Observe(doses[i + 1], z[i + 1])]

\* lines 265-268: doses.map(dose => ...)
Simulate(doses, z) == [i \in 1..Len(doses) |-> Observe(doses[i], z[i])]

\* onClick of Run Experiment: runExperiment (lines 260-275)
AppRunExperiment ==
  \E z \in AppRandn :
    \E doses \in {ParseDoses(appDoseInput)} :
       /\ UNCHANGED <<appDoseInput, appParams, appIsOptimizing, appTimers, appInvoked>>
       /\ UNCHANGED <<optVars, covVars, smpVars, rssVars, dsgVars, console, fnVars>>
       /\ IF Len(doses) = 0
            THEN /\ appAlert' = AlertDoses
                 /\ UNCHANGED <<appExperimentData, appOptimizedParams,
                                appStandardErrors, appCovMatrix>>
            ELSE /\ appExperimentData' = Simulate(doses, z)
                 /\ appOptimizedParams' = Null
                 /\ appStandardErrors' = Null
                 /\ appCovMatrix' = Null
                 /\ UNCHANGED appAlert

\* onClick of Optimize Parameters: optimizeParams up to setTimeout (lines
\* 278-286); the button is drawn only with data (line 421) and is disabled
\* while isOptimizing (line 425)
AppOptimizeParams ==
  /\ Len(appExperimentData) > 0
  /\ ~OptimizeDisabled(appIsOptimizing)
  /\ Len(appInvoked) < MaxOptimizeClicks
  /\ Len(appTimers) < MaxPendingTimers
  /\ IF Len(appExperimentData) = 0
       THEN /\ appAlert' = AlertExperiment
            /\ UNCHANGED <<appIsOptimizing, appTimers>>
       ELSE /\ appIsOptimizing' = TRUE
            /\ appTimers' = Append(appTimers,
                                   [experimentData |-> appExperimentData,
                                    params |-> appParams])
            /\ UNCHANGED appAlert
  /\ UNCHANGED <<appDoseInput, appParams, appExperimentData, appOptimizedParams,
                 appStandardErrors, appCovMatrix, appInvoked>>
  /\ UNCHANGED <<optVars, covVars, smpVars, rssVars, dsgVars, console, fnVars>>

\* the callback of setTimeout (lines 287-295), on the experimentData and
\* params its closure captured
AppTimerFire ==
  /\ appTimers # << >>
  /\ appTimers' = Tail(appTimers)
  /\ UNCHANGED <<appDoseInput, appExperimentData, appAlert>>
  /\ UNCHANGED <<optVars, covVars, smpVars, rssVars, dsgVars, fnVars>>
  /\ \E t \in {Head(appTimers)} :
       \E optimized \in {optimizeParameters(t.experimentData, t.params,
                                             AppIterations, AppLearningRate)} :
         \E l \in {CovHessian(t.experimentData, optimized)} :
           \E result \in {CovResult(l)} :
             /\ appOptimizedParams' = optimized
             /\ appStandardErrors' = result.standardErrors
             /\ appCovMatrix' = result.covMatrix
             /\ appParams' = optimized
             /\ appIsOptimizing' = FALSE
             /\ appInvoked' = Append(appInvoked, t.experimentData)
             /\ console' = IF CovDegenerate(l) THEN Append(console, WarnHessian)
                           ELSE console

AppNext ==
  \/ AppSetDoseInput
  \/ AppUpdateParam
  \/ AppRunExperiment
  \/ AppOptimizeParams
  \/ AppTimerFire

SpecFitting == AppInit /\ [][AppNext]_vars

\* a callback of setTimeout is pending: AppTimerFire is possible exactly then
AppTimerPending == appTimers # << >>

\* the steps of AppNext that take the first callback off appTimers: these are
\* the AppTimerFire steps, no other action shortens appTimers
AppTimerRuns == AppTimerPending /\ appTimers' = Tail(appTimers)

\* the browser runs a pending callback of setTimeout after its delay; clicks
\* and typing are the user's and need not happen.  This is weak fairness of
\* AppTimerFire, WF_appTimers(AppTimerRuns), with ENABLED written out as
\* AppTimerPending.
SpecFittingRuns ==
  SpecFitting /\ ([]<>(~AppTimerPending) \/ []<><<AppTimerRuns>>_appTimers)

(***************************************************************************)
(* emaxModel called on its own: one parameter vector, a history of calls   *)
(***************************************************************************)
MaxEmaxCalls == 2

\* the double that follows the positive finite double a
NextUp(a) == Norm(a.s, AddMag(a.m, << 1 >>), a.e, FALSE)

EmxBaselines == {Num(100), Zero}
EmxEmaxValues == {Num(80), Dec(5, 1), Zero, Num(-5), PowerOfTwo(600)}
EmxED50Values == {Num(1), Dec(15, 1), Zero, Num(-1)}
EmxDoses ==
  {Zero, Dec(5, 1), Num(1), Num(10), NextUp(Num(10)), Num(50), PowerOfTwo(600)}

EmxInit ==
  /\ emxParams \in [E0 : EmxBaselines, Emax : EmxEmaxValues, ED50 : EmxED50Values]
  /\ emxCalls = << >>
  /\ OptIdle /\ CovIdle /\ SmpIdle /\ RssIdle /\ DsgIdle /\ AppIdle /\ BndIdle
  /\ console = << >>

\* one call emaxModel(dose, E0, Emax, ED50)
EvaluateEmax ==
  /\ Len(emxCalls) < MaxEmaxCalls
  /\ \E dose \in EmxDoses :
       \E den \in {EmaxDenominator(emxParams.ED50, dose)} :
         emxCalls' = Append(emxCalls,
                       [dose |-> dose, den |-> den, divided |-> EmaxDivides(den),
                        value |-> emaxModel(dose, emxParams.E0, emxParams.Emax,
                                            emxParams.ED50)])
  /\ UNCHANGED <<emxParams, bndVars, optVars, covVars, smpVars, rssVars, dsgVars, appVars, console>>

EmxNext == EvaluateEmax

SpecEmax == EmxInit /\ [][EmxNext]_vars

(***************************************************************************)
(* The useMemo confidenceBands of the two applications                     *)
(***************************************************************************)
\* sampleMultivariateNormal(..., 200): the number of samples drawn here
MaxBandSamples == 2
\* the grid points followed: the first, the middle one and the last
BandGrid == << 0, 100, 200 >>
\* the plotting range
PlotLo == Num(0)
PlotHi == Num(120)

\* Math.max(...doses, 5)
RECURSIVE BandMaxDose(_, _)
BandMaxDose(doses, acc) ==
  IF doses = << >> THEN acc ELSE BandMaxDose(Tail(doses), MathMax(acc, Head(doses)))

BandPoint(i, maxDose) == Mul(Div(Num(i), Num(GridLast)), maxDose)

\* samples.map(sample => emaxModel(x, E0, sample.Emax, sample.ED50))
BandPredictions(x, samples) ==
  [k \in 1..Len(samples) |-> emaxModel(x, E0, samples[k].Emax, samples[k].ED50)]

Ascending(a) == \A i \in 1..(Len(a) - 1) : Le(a[i], a[i + 1])

\* predictions.sort((a, b) => a - b): ascending order; with a NaN among the
\* values the comparator is inconsistent and the order is the engine's choice
SortOutcomes(a) ==
  IF \E k \in 1..Len(a) : IsNaN(a[k])
    THEN {[k \in 1..Len(a) |-> a[p[k]]] : p \in Permutations(1..Len(a))}
    ELSE {s \in {[k \in 1..Len(a) |-> a[p[k]]] : p \in Permutations(1..Len(a))} :
            Ascending(s)}

\* Math.floor(v) for 0 <= v <= n
MathFloor(v, n) == CHOOSE k \in 0..n : Le(Num(k), v) /\ Lt(v, Num(k + 1))

BandLowerIdx(n) == MathFloor(Mul(Num(n), Dec(5, 2)), n)
BandUpperIdx(n) == MathFloor(Mul(Num(n), Dec(95, 2)), n)

\* the object returned for one grid point, from the sorted predictions
BandEntry(x, yFit, sorted) ==
  [x |-> x, y |-> yFit,
   upper |-> Clamp(PlotLo, PlotHi, ArrayGet(sorted, BandUpperIdx(Len(sorted)) + 1)),
   lower |-> Clamp(PlotLo, PlotHi, ArrayGet(sorted, BandLowerIdx(Len(sorted)) + 1))]

Fit(mean, covMatrix) == [mean |-> mean, covMatrix |-> covMatrix]

\* the fit the memo reads: none yet; covariances given directly (positive
\* definite and indefinite); the estimator's result on three doses, and on
\* three observations at dose 0; the design application's expected information
BndFits ==
  {Fit(Null, Null),
   Fit(Params(Num(80), Num(1)), CovM(Num(1), Num(1), Dec(5, 1))),
   Fit(Params(Num(60), Num(2)), CovM(Num(4), Num(1), Num(1))),
   Fit(Params(Num(60), Num(2)), CovM(Num(1), Num(1), Num(5))),
   Fit(Params(Num(60), Num(2)),
       calculateCovarianceMatrix(DataThree, Params(Num(60), Num(2))).covMatrix),
   Fit(Params(Num(60), Num(2)),
       calculateCovarianceMatrix(DataFlat, Params(Num(60), Num(2))).covMatrix),
   Fit(Params(Num(80), Num(2)),
       calculateExpectedInformation(<< Dec(5, 1), Num(1), Num(2), Num(4) >>,
                                    Params(Num(80), Num(2)), DesignSigma))}
BndDoses ==
  {<< >>, << Dec(5, 1), Num(1), Num(2), Num(3), Num(4) >>, << Num(0), Num(0), Num(0) >>,
   << Num(1), Num(10) >>}

BndInit ==
  /\ OptIdle /\ CovIdle /\ SmpIdle /\ RssIdle /\ DsgIdle /\ AppIdle /\ EmxIdle
  /\ console = << >>
  /\ \E fit \in BndFits, doses \in BndDoses :
       bndArgs = [mean |-> fit.mean, covMatrix |-> fit.covMatrix, doses |-> doses]
  /\ bndPc = "call"
  /\ bndSamples = << >> /\ bndSorted = << >> /\ bndBand = << >>
  /\ bndReturn = Null

\* the guard, sampleMultivariateNormal(mean, covMatrix, 200), and
\* if (samples.length === 0) return null
BndSample ==
  /\ bndPc = "call"
  /\ IF bndArgs.mean = Null \/ bndArgs.covMatrix = Null
       THEN /\ bndPc' = "returned"
            /\ UNCHANGED <<bndSamples, console>>
       ELSE \E l \in {SmpCholesky(bndArgs.covMatrix)} :
              IF SmpRejects(l)
                THEN /\ console' = Append(console, WarnCovariance)
                     /\ bndPc' = "returned"
                     /\ UNCHANGED bndSamples
                ELSE /\ \E zs \in [1..MaxBandSamples -> SmpDeviates] :
                          bndSamples' = [k \in 1..MaxBandSamples |->
                                          SmpSample(bndArgs.mean, l, zs[k][1], zs[k][2])]
                     /\ bndPc' = "map"
                     /\ UNCHANGED console
  /\ UNCHANGED <<bndArgs, bndSorted, bndBand, bndReturn>>
  /\ UNCHANGED <<emxVars, optVars, covVars, smpVars, rssVars, dsgVars, appVars>>

\* points.map(x => ...): the entry of the next grid point
BndMapPoint ==
  /\ bndPc = "map"
  /\ Len(bndBand) < Len(BandGrid)
  /\ \E x \in {BandPoint(BandGrid[Len(bndBand) + 1], BandMaxDose(bndArgs.doses, Num(5)))} :
       \E predictions \in {BandPredictions(x, bndSamples)} :
         \E sorted \in SortOutcomes(predictions) :
           /\ bndSorted' = Append(bndSorted, sorted)
           /\ bndBand' = Append(bndBand,
                 BandEntry(x, emaxModel(x, E0, bndArgs.mean.Emax, bndArgs.mean.ED50),
                           sorted))
  /\ UNCHANGED <<bndArgs, bndPc, bndSamples, bndReturn, console>>
  /\ UNCHANGED <<emxVars, optVars, covVars, smpVars, rssVars, dsgVars, appVars>>

\* the mapped array is the value of the memo
BndReturn ==
  /\ bndPc = "map"
  /\ ~(Len(bndBand) < Len(BandGrid))
  /\ bndReturn' = bndBand
  /\ bndPc' = "returned"
  /\ UNCHANGED <<bndArgs, bndSamples, bndSorted, bndBand, console>>
  /\ UNCHANGED <<emxVars, optVars, covVars, smpVars, rssVars, dsgVars, appVars>>

BndNext == BndSample \/ BndMapPoint \/ BndReturn

SpecBands == BndInit /\ [][BndNext]_vars

(***************************************************************************)
(* Claims about optimizeParameters                                         *)
(***************************************************************************)
InBox(p) ==
  /\ Le(EmaxLo, p.Emax) /\ Le(p.Emax, EmaxHi)
  /\ Le(ED50Lo, p.ED50) /\ Le(p.ED50, ED50Hi)

\* C1: for every dataset, initial point and iteration count, the returned
\* parameters satisfy 0 <= Emax <= 100 and 0.01 <= ED50 <= 10.
C1_ReturnInBox == optPc = "returned" => InBox(optReturn)

\* the i-th vector of seq has the lowest RSS of seq, and is the earliest such
EarliestLowest(seq, i) ==
  \A j \in 1..Len(seq) :
    /\ j < i => Lt(seq[i].rss, seq[j].rss)
    /\ j > i => Le(seq[i].rss, seq[j].rss)

PointOf(v) == [Emax |-> v.Emax, ED50 |-> v.ED50]

\* every vector the run visited: the evaluated ones and the iterate the last
\* update left (the initial point itself when no update ran)
OptVisited ==
  Append(optEvaluated,
         [Emax |-> opt.Emax, ED50 |-> opt.ED50, rss |-> OptRSS(optArgs.data, opt)])

\* C2 as claimed: the returned vector has the lowest RSS among all vectors
\* visited, the iterate produced by the last update included; ties keep the
\* earliest.
C2_LowestOfVisited ==
  optPc = "returned" =>
    \E i \in 1..Len(OptVisited) :
      optReturn = PointOf(OptVisited[i]) /\ EarliestLowest(OptVisited, i)

\* the evaluations whose RSS is below +Infinity, in order
RECURSIVE Recordable(_)
Recordable(seq) ==
  IF seq = << >> THEN << >>
  ELSE (IF Lt(seq[1].rss, PInf) THEN << seq[1] >> ELSE << >>) \o Recordable(Tail(seq))

\* C2 (amended): the returned vector has the lowest RSS among the vectors at
\* which the loop evaluated RSS (the initial point and the iterates of every
\* update but the last), ties keeping the earliest; the iterate the last update
\* produced is never evaluated.  With no evaluation below +Infinity (in
\* particular with zero iterations) the initial point is returned.
C2_LowestOfEvaluated ==
  optPc = "returned" =>
    LET seq == Recordable(optEvaluated)
    IN IF seq = << >> THEN optReturn = optArgs.initialParams
       ELSE \E i \in 1..Len(seq) :
              optReturn = PointOf(seq[i]) /\ EarliestLowest(seq, i)

\* a run returned a point found during the loop although the iterate of its
\* last update has a strictly lower RSS
C2_Witness ==
  /\ optPc = "returned"
  /\ Len(optEvaluated) >= 2
  /\ optReturn # optArgs.initialParams
  /\ \A i \in 1..Len(optEvaluated) :
       Lt(OptRSS(optArgs.data, opt), optEvaluated[i].rss)

\* the loop body ran exactly the configured number of times before the return
OptRanAll ==
  optPc = "returned"
    => (opt.iter = optArgs.iterations /\ Len(optEvaluated) = optArgs.iterations)

\* C14: for every dataset (the empty one included) and every initial point
\* optimizeParameters terminates, and it returns after exactly the configured
\* number of loop iterations: no convergence, bound or non-improving RSS ends
\* the loop early.
C14_RunsConfiguredCount == []OptRanAll /\ <>(optPc = "returned")

\* a return after the largest iteration count, where an iterate sat on a bound
\* of the box and the RSS had stopped improving before the last iteration
C14_Witness ==
  /\ optPc = "returned" /\ optArgs.iterations = MaxIterations
  /\ Len(optEvaluated) = MaxIterations
  /\ \E k \in 2..Len(optEvaluated) :
       /\ ~Lt(optEvaluated[k].rss, optEvaluated[k - 1].rss)
       /\ optEvaluated[k].Emax \in {EmaxLo, EmaxHi}

\* a return on the empty dataset after the largest iteration count
C14_EmptyReached ==
  /\ optPc = "returned" /\ optArgs.data = << >>
  /\ Len(optEvaluated) = MaxIterations

\* learningRate * 0.95^n
RECURSIVE DecayedRate(_, _)
DecayedRate(learningRate, n) ==
  IF n = 0 THEN learningRate ELSE Mul(DecayedRate(learningRate, n - 1), DecayFactor)

\* C15: the update of iteration k (0-based) uses
\* learningRate * 0.95^floor(k/100), so the first 100 updates use the
\* undecayed initial learning rate.
C15_DecayPerCompletedBlock ==
  (optPc = "loop" /\ OptContinues(opt, optArgs.iterations))
    => opt.learningRate = DecayedRate(optArgs.learningRate, opt.iter \div DecayEvery)

\* what the code does: iteration 0 uses the initial rate and iteration k >= 1
\* uses learningRate * 0.95^(floor((k - 1)/100) + 1)
OptDecaysAfterFirst ==
  (optPc = "loop" /\ OptContinues(opt, optArgs.iterations))
    => opt.learningRate =
         IF opt.iter = 0 THEN optArgs.learningRate
         ELSE DecayedRate(optArgs.learningRate, ((opt.iter - 1) \div DecayEvery) + 1)

\* the RSS of the dataset at the initial point is finite
OptInitialFinite ==
  IsFin(RSSAt(optArgs.data, optArgs.initialParams.Emax, optArgs.initialParams.ED50))

C18_InitialKeptReached ==
  /\ optPc = "returned" /\ optArgs.iterations >= 2 /\ OptInitialFinite
  /\ optReturn = optArgs.initialParams
  /\ \E k \in 2..Len(optEvaluated) : Gt(optEvaluated[k].rss, optEvaluated[1].rss)

(***************************************************************************)
(* Claims about calculateCovarianceMatrix                                  *)
(***************************************************************************)
\* the call has returned from the branch of line 126 (det <= 0), or from the
\* other one with det > 0
CovReturnedFallback == covPc = "returned" /\ CovDegenerate(covLocals)
CovReturnedInverse == covPc = "returned" /\ Gt(covLocals.det, Zero)

\* C3: whenever the call takes the det > 0 branch, both marginal variances
\* of the returned matrix are non-negative (the matrix holds its one
\* off-diagonal entry once, so it is symmetric by construction).
C3_InverseNonNegative ==
  CovReturnedInverse =>
    /\ Ge(covReturn.covMatrix.var_Emax, Zero)
    /\ Ge(covReturn.covMatrix.var_ED50, Zero)

\* C4 as claimed: whenever det <= 0 the call returns var_Emax = sigma2 / H11,
\* var_ED50 = sigma2 / H22 and covariance 0.
C4_FallbackQuotient ==
  CovReturnedFallback =>
    /\ covReturn.covMatrix.var_Emax = Div(covLocals.sigma2, covLocals.H11)
    /\ covReturn.covMatrix.var_ED50 = Div(covLocals.sigma2, covLocals.H22)
    /\ covReturn.covMatrix.cov_Emax_ED50 = Zero

\* C4, amended: whenever det <= 0 the call returns the absolute values
\* var_Emax = |sigma2 / H11| and var_ED50 = |sigma2 / H22| (NaN when the
\* quotient is NaN) with covariance exactly 0, and the only mark of the
\* approximation is one warning written to the console.
C4_FallbackAbsolute ==
  CovReturnedFallback =>
    /\ covReturn.covMatrix.var_Emax = Abs(Div(covLocals.sigma2, covLocals.H11))
    /\ covReturn.covMatrix.var_ED50 = Abs(Div(covLocals.sigma2, covLocals.H22))
    /\ covReturn.covMatrix.cov_Emax_ED50 = Zero
    /\ DOMAIN covReturn = {"standardErrors", "covMatrix"}
    /\ console = << WarnHessian >>

\* a fallback on three observations where sigma2 / H22 is negative
C4_Witness ==
  /\ CovReturnedFallback
  /\ Len(covArgs.data) >= 3
  /\ Gt(covLocals.sigma2, Zero)
  /\ Lt(covLocals.H22, Zero)
  /\ Gt(covReturn.covMatrix.var_ED50, Zero)

\* C5: in every result, of either branch, each standard error is the square
\* root of the variance returned beside it.
C5_ErrorIsRootOfVariance ==
  covPc = "returned" =>
    /\ covReturn.standardErrors.Emax = MathSqrt(covReturn.covMatrix.var_Emax)
    /\ covReturn.standardErrors.ED50 = MathSqrt(covReturn.covMatrix.var_ED50)

(***************************************************************************)
(* Claims about sampleMultivariateNormal                                   *)
(***************************************************************************)
\* L22 is a finite number greater than 0
FinitePositive(v) == IsFin(v) /\ Gt(v, Zero)

\* C6: the sampler returns an empty sequence whenever L22 is not
\* finite-positive, and exactly numSamples draws whenever it is.
C6_EmptyIffNotFinitePositive ==
  smpPc = "returned" =>
    IF FinitePositive(smpLocals.L22)
      THEN Len(smpReturn) = smpArgs.numSamples
      ELSE smpReturn = << >>

(***************************************************************************)
(* Claims about calculateRSS                                               *)
(***************************************************************************)
\* C9: whenever observed and predicted differ in length, calculateRSS ends
\* by signalling an error, not by returning a value.
C9_MismatchRaises ==
  rssPc = "returned" /\ Len(rssArgs.observed) # Len(rssArgs.predicted) =>
    rssResult.kind = "throw"

\* a call on two finite sequences of the same length has returned
RssComparable ==
  /\ rssPc = "returned"
  /\ Len(rssArgs.observed) = Len(rssArgs.predicted)
  /\ \A i \in 1..Len(rssArgs.observed) :
       IsFin(rssArgs.observed[i].y) /\ IsFin(rssArgs.predicted[i])

\* predicted equals observed at every index
RssAllEqual ==
  \A i \in 1..Len(rssArgs.observed) : rssArgs.observed[i].y = rssArgs.predicted[i]

\* some residual is at least 2^-511 in magnitude: its square is a normal double
RssSomeResidualNormal ==
  \E i \in 1..Len(rssArgs.observed) :
    Ge(Abs(Sub(rssArgs.observed[i].y, rssArgs.predicted[i])), PowerOfTwo(-511))

\* C11 as claimed: on finite sequences of equal length the RSS is
\* non-negative, and it is 0 if and only if predicted equals observed at
\* every index.
C11_ZeroIffEqual ==
  RssComparable =>
    /\ Ge(rssResult.value, Zero)
    /\ rssResult.value = Zero <=> RssAllEqual

\* C11, amended: on finite sequences of equal length the RSS is non-negative
\* (possibly +Infinity); it is 0 when predicted equals observed at every
\* index, and greater than 0 when some residual is at least 2^-511 in
\* magnitude.  Smaller residuals have squares that round to 0.
C11_ZeroWhenEqual ==
  RssComparable =>
    /\ Ge(rssResult.value, Zero)
    /\ RssAllEqual => rssResult.value = Zero
    /\ RssSomeResidualNormal => Gt(rssResult.value, Zero)

\* a call on unequal sequences of two or more values returned an RSS above 0
C11_Witness ==
  /\ RssComparable
  /\ Len(rssArgs.observed) >= 2
  /\ ~RssAllEqual
  /\ RssSomeResidualNormal
  /\ IsFin(rssResult.value)
  /\ Gt(rssResult.value, Zero)

\* a call on equal sequences of three values returned 0
C11_ZeroReached ==
  RssComparable /\ Len(rssArgs.observed) = 3 /\ RssAllEqual /\ rssResult.value = Zero

(***************************************************************************)
(* Claims about the design application                                     *)
(***************************************************************************)
\* the doses parsed from the box are at least one and all the same
DsgIdenticalDoses ==
  LET doses == ParseDoses(dsgDoseInput)
  IN Len(doses) >= 1 /\ \A i \in 1..Len(doses) : doses[i] = doses[1]

\* the determinant of line 81 for the doses and parameters on the screen
DsgDeterminant == InfoMatrix(ParseDoses(dsgDoseInput), dsgParams, DesignSigma).det

\* C7: whenever all doses of the design are identical, the determinant of the
\* expected information matrix is not positive and the precision report is
\* shown with its poor-design flag set.
C7_IdenticalDosesPoor ==
  DsgIdenticalDoses =>
    /\ ~Gt(DsgDeterminant, Zero)
    /\ dsgPrecisionMetrics # Null
    /\ dsgPrecisionMetrics.isPoor

\* 2^-50, the room left for the rounding of two operations taken in another order
RoundingSlack == Div(Div(Num(1), Num(Pow2(25))), Num(Pow2(25)))

\* a and b are the same value, or finite and equal up to rounding
SameUpToRounding(a, b) ==
  \/ a = b
  \/ /\ IsFin(a) /\ IsFin(b)
     /\ Le(Abs(Sub(a, b)), Mul(Abs(a), RoundingSlack))

\* C8: whenever a precision report is on the screen, each %RSE is
\* 100 * sqrt(variance) / estimate of the expected information and parameters
\* on the screen, and the poor flag is set exactly when one of the two %RSE
\* is strictly greater than 50.
C8_RSEAndPoorFlag ==
  dsgPrecisionMetrics # Null =>
    LET m == dsgPrecisionMetrics
        info == dsgExpectedInfo
    IN /\ info # Null
       /\ m.rseEmax = Mul(Div(MathSqrt(info.var_Emax), dsgParams.Emax), Num(100))
       /\ m.rseED50 = Mul(Div(MathSqrt(info.var_ED50), dsgParams.ED50), Num(100))
       /\ SameUpToRounding(m.rseEmax,
            Div(Mul(Num(100), MathSqrt(info.var_Emax)), dsgParams.Emax))
       /\ SameUpToRounding(m.rseED50,
            Div(Mul(Num(100), MathSqrt(info.var_ED50)), dsgParams.ED50))
       /\ m.isPoor <=> (Gt(m.rseEmax, PoorRSE) \/ Gt(m.rseED50, PoorRSE))

\* a report flagged poor for ED50 alone: %RSE(Emax) is at most 50
C8_Witness ==
  /\ dsgPrecisionMetrics # Null
  /\ dsgPrecisionMetrics.isPoor
  /\ Le(dsgPrecisionMetrics.rseEmax, PoorRSE)
  /\ Gt(dsgPrecisionMetrics.rseED50, PoorRSE)

\* a report that is not flagged: both %RSE are at most 50
C8_NotPoorReached ==
  /\ dsgPrecisionMetrics # Null
  /\ ~dsgPrecisionMetrics.isPoor
  /\ Le(dsgPrecisionMetrics.rseEmax, PoorRSE)
  /\ Le(dsgPrecisionMetrics.rseED50, PoorRSE)

(***************************************************************************)
(* Claims about the fitting application                                    *)
(***************************************************************************)
\* C10: every dataset the application has passed to optimizeParameters and
\* calculateCovarianceMatrix has more than two observations (it is neither
\* empty nor too small for sigma2 = RSS / (n - 2)).
C10_NeverInvokedOnSmallData ==
  \A i \in 1..Len(appInvoked) : Len(appInvoked[i]) > 2

\* C19: whenever a fit result is displayed it was computed from the
\* experimentData currently displayed: the dataset of the last callback that
\* installed a fit is the current dataset.
C19_FitFromDisplayedData ==
  appOptimizedParams # Null => appInvoked[Len(appInvoked)] = appExperimentData

\* the three parts of the fit result are all null or all non-null
AppFitWhole ==
  /\ (appOptimizedParams = Null) <=> (appStandardErrors = Null)
  /\ (appOptimizedParams = Null) <=> (appCovMatrix = Null)

\* Run Experiment with a non-empty parsed dose list leaves no fit and one
\* observation per parsed dose, in dose order
AppRunResets ==
  (Len(ParseDoses(appDoseInput)) # 0 /\ AppRunExperiment)
    => /\ appOptimizedParams' = Null /\ appStandardErrors' = Null
       /\ appCovMatrix' = Null
       /\ Len(appExperimentData') = Len(ParseDoses(appDoseInput))
       /\ \A i \in 1..Len(appExperimentData') :
            appExperimentData'[i].x = ParseDoses(appDoseInput)[i]

\* C20: in every reachable state optimizedParams, standardErrors and
\* covMatrix are all null or all non-null, and immediately after a successful
\* Run Experiment all three are null while experimentData holds exactly one
\* observation per parsed dose, in dose order.
C20_FitWholeAndResetByRun == []AppFitWhole /\ [][AppRunResets]_vars

\* a fit was installed and a later Run Experiment has removed it
C20_Witness ==
  /\ Len(appInvoked) >= 1 /\ Len(appExperimentData) > 0
  /\ appOptimizedParams = Null /\ appStandardErrors = Null /\ appCovMatrix = Null

\* a fit is on display, whole
C20_FitReached ==
  appOptimizedParams # Null /\ appStandardErrors # Null /\ appCovMatrix # Null

\* at most one callback is pending, and isOptimizing is true exactly while one is
AppOnePending ==
  /\ Len(appTimers) <= 1
  /\ appIsOptimizing <=> AppTimerPending

\* a click on Optimize, the one step that schedules a callback, happens on a
\* non-empty dataset with the button enabled and leaves isOptimizing true with
\* its callback the only one pending
AppClickSets ==
  Len(appTimers') > Len(appTimers) =>
    /\ Len(appExperimentData) > 0 /\ ~OptimizeDisabled(appIsOptimizing)
    /\ appIsOptimizing' /\ Len(appTimers') = 1

\* C21: every Optimize click on a non-empty dataset sets isOptimizing to true
\* and is eventually followed by the deferred callback resetting it to false;
\* while isOptimizing is true the button is disabled, so that at most one
\* optimization callback is pending at any time.
C21_ClickSetsAndCallbackResets ==
  /\ []AppOnePending
  /\ [][AppClickSets]_vars
  /\ (appIsOptimizing ~> ~appIsOptimizing)

\* a click was made and its callback has run and reset isOptimizing
C21_Witness ==
  /\ Len(appInvoked) >= 1 /\ appTimers = << >> /\ ~appIsOptimizing
  /\ appOptimizedParams # Null

\* a click was made and its callback is pending with the button disabled
AppPendingReached ==
  /\ Len(appTimers) = 1 /\ appIsOptimizing /\ OptimizeDisabled(appIsOptimizing)
  /\ Len(appInvoked) = 0

(***************************************************************************)
(* Claims about emaxModel                                                  *)
(***************************************************************************)
EmxCallPairs == (1..Len(emxCalls)) \X (1..Len(emxCalls))

\* zero, or of a magnitude between 2^-500 and 2^500: products, sums and
\* quotients of such values neither overflow nor lose their low bits
EmxModerate(v) ==
  IsFin(v) /\ (v = Zero \/ (Le(PowerOfTwo(-500), Abs(v)) /\ Le(Abs(v), PowerOfTwo(500))))

\* calls i and j share positive Emax and ED50, and 0 <= dose i <= dose j
EmxOrdered(i, j) ==
  /\ Gt(emxParams.Emax, Zero) /\ Gt(emxParams.ED50, Zero)
  /\ Le(Zero, emxCalls[i].dose) /\ Le(emxCalls[i].dose, emxCalls[j].dose)

EmxAllModerate(i, j) ==
  /\ EmxModerate(emxParams.E0) /\ EmxModerate(emxParams.Emax)
  /\ EmxModerate(emxParams.ED50)
  /\ EmxModerate(emxCalls[i].dose) /\ EmxModerate(emxCalls[j].dose)

\* 2^-49 * (|E0| + Emax): sixteen rounding units of the two magnitudes
EmxRoundingSlack == Mul(PowerOfTwo(-49), Add(Abs(emxParams.E0), emxParams.Emax))

\* C12 as stated: with maxEffect > 0 and potency > 0 fixed, emaxModel is
\* non-increasing in dose over dose >= 0: a larger dose never gives a
\* larger value.
C12_NonIncreasing ==
  \A p \in EmxCallPairs :
    EmxOrdered(p[1], p[2]) => Le(emxCalls[p[2]].value, emxCalls[p[1]].value)

\* C12: with baseline, maxEffect > 0, potency > 0 and the doses of moderate
\* magnitude, a larger dose gives a value that exceeds the value of the
\* smaller dose by at most 2^-49 * (|baseline| + maxEffect).
C12_NonIncreasingUpToRounding ==
  \A p \in EmxCallPairs :
    (EmxOrdered(p[1], p[2]) /\ EmxAllModerate(p[1], p[2]))
      => Le(Sub(emxCalls[p[2]].value, emxCalls[p[1]].value), EmxRoundingSlack)

\* two calls at moderate inputs where the larger dose gave the larger value
C12_Witness ==
  \E p \in EmxCallPairs :
    /\ EmxOrdered(p[1], p[2]) /\ EmxAllModerate(p[1], p[2])
    /\ Lt(emxCalls[p[1]].value, emxCalls[p[2]].value)

\* two calls at moderate inputs where the larger dose gave the smaller value
C12_DecreaseReached ==
  \E p \in EmxCallPairs :
    /\ EmxOrdered(p[1], p[2]) /\ EmxAllModerate(p[1], p[2])
    /\ Lt(emxCalls[p[2]].value, emxCalls[p[1]].value)

\* C13: for potency > 0 and dose = 0, emaxModel returns exactly baseline,
\* whatever maxEffect is.
C13_BaselineAtZeroDose ==
  \A i \in 1..Len(emxCalls) :
    (Gt(emxParams.ED50, Zero) /\ emxCalls[i].dose = Zero)
      => emxCalls[i].value = emxParams.E0

\* a call at dose 0 with potency > 0 and a non-zero maxEffect, which divided
C13_Witness ==
  \E i \in 1..Len(emxCalls) :
    /\ Gt(emxParams.ED50, Zero) /\ emxCalls[i].dose = Zero
    /\ emxParams.Emax # Zero /\ emxCalls[i].divided

EmxFiniteInputs(i) ==
  /\ IsFin(emxParams.E0) /\ IsFin(emxParams.Emax) /\ IsFin(emxParams.ED50)
  /\ IsFin(emxCalls[i].dose)

\* the quotient is formed only over a positive denominator, and a call whose
\* denominator potency + dose is 0 returns baseline
EmxZeroDenominatorGuarded ==
  \A i \in 1..Len(emxCalls) :
    /\ emxCalls[i].divided => Gt(emxCalls[i].den, Zero)
    /\ emxCalls[i].den = Zero => emxCalls[i].value = emxParams.E0

\* a call whose denominator was 0 with a non-zero numerator
EmxZeroDenominatorReached ==
  \E i \in 1..Len(emxCalls) :
    /\ emxCalls[i].den = Zero /\ emxCalls[i].dose # Zero /\ emxParams.Emax # Zero

\* C16: if potency + dose = 0 emaxModel returns baseline instead of dividing
\* by zero; it never divides by a zero denominator, and it returns a finite
\* value for all finite inputs.
C16_GuardedAndFinite ==
  /\ EmxZeroDenominatorGuarded
  /\ \A i \in 1..Len(emxCalls) : EmxFiniteInputs(i) => IsFin(emxCalls[i].value)

(***************************************************************************)
(* Claims about the prediction band                                        *)
(***************************************************************************)
\* entry g of the band takes the sorted predictions at the indices
\* floor(0.05 n) and floor(0.95 n), clamped to the plotting range
BandTakesPercentiles(g) ==
  /\ bndBand[g].lower =
       Clamp(PlotLo, PlotHi, bndSorted[g][((5 * Len(bndSorted[g])) \div 100) + 1])
  /\ bndBand[g].upper =
       Clamp(PlotLo, PlotHi, bndSorted[g][((95 * Len(bndSorted[g])) \div 100) + 1])

BandOrdered(g) ==
  /\ Le(PlotLo, bndBand[g].lower) /\ Le(bndBand[g].lower, bndBand[g].upper)
  /\ Le(bndBand[g].upper, PlotHi)

BandSamplesFinite ==
  \A k \in 1..Len(bndSamples) : IsFin(bndSamples[k].Emax) /\ IsFin(bndSamples[k].ED50)

\* C17: whenever a band is produced, at every grid point lower is the sorted
\* prediction at index floor(0.05 n) and upper the one at index floor(0.95 n),
\* both clamped to [0, 120], so that 0 <= lower <= upper <= 120; and when the
\* sampler returns an empty sequence no band is produced.
C17_BandWithinPlot ==
  /\ \A g \in 1..Len(bndBand) : BandTakesPercentiles(g) /\ BandOrdered(g)
  /\ (bndPc = "returned" /\ bndSamples = << >>) => bndReturn = Null

\* the same for bands computed from finite samples only
BandWithinPlotWhenFinite ==
  /\ BandSamplesFinite
       => \A g \in 1..Len(bndBand) : BandTakesPercentiles(g) /\ BandOrdered(g)
  /\ (bndPc = "returned" /\ bndSamples = << >>) => bndReturn = Null

\* a complete band from finite samples whose bounds differ at some grid point
BandFiniteReached ==
  /\ bndPc = "returned" /\ bndReturn # Null /\ BandSamplesFinite
  /\ \E g \in 1..Len(bndReturn) : Lt(bndReturn[g].lower, bndReturn[g].upper)

\* the sampler returned the empty sequence and the memo is null
BandRejectedReached ==
  bndPc = "returned" /\ bndArgs.mean # Null /\ bndSamples = << >> /\ bndReturn = Null

(***************************************************************************)
(* Claims about the expected information and the band of the design        *)
(* application                                                             *)
(***************************************************************************)
\* var_Emax > 0, var_ED50 > 0 and var_Emax * var_ED50 - cov_Emax_ED50^2 > 0
InfoPositiveDefinite(c) ==
  /\ Gt(c.var_Emax, Zero) /\ Gt(c.var_ED50, Zero)
  /\ Gt(Sub(Mul(c.var_Emax, c.var_ED50), Mul(c.cov_Emax_ED50, c.cov_Emax_ED50)), Zero)

\* the sampler returned the requested draws and the band has its 201 points
DsgBandAvailable ==
  dsgSamples = ArrayOf(BandDraws) /\ dsgConfidenceBands = ArrayOf(GridLast + 1)

\* no precision metrics and no band
DsgNothingProduced == dsgPrecisionMetrics = Null /\ dsgConfidenceBands = Null

\* C22: whenever calculateExpectedInformation returns a non-null covariance it
\* is symmetric positive definite on the natural scale (both variances and the
\* determinant positive), so that sampleMultivariateNormal applied to it returns
\* exactly the requested number of draws and a band is available; when it
\* returns null, no precision metrics and no band are produced.
C22_NonNullIsPositiveDefinite ==
  /\ dsgExpectedInfo # Null => InfoPositiveDefinite(dsgExpectedInfo) /\ DsgBandAvailable
  /\ dsgExpectedInfo = Null => DsgNothingProduced

\* the doses on the screen are finite and not all the same
DsgDistinctFiniteDoses ==
  \E doses \in {ParseDoses(dsgDoseInput)} :
    /\ \A k \in 1..Len(doses) : IsFin(doses[k])
    /\ \E i, j \in 1..Len(doses) : doses[i] # doses[j]

\* the same for designs of finite doses that are not all the same
InfoPositiveDefiniteWhenDistinct ==
  /\ (DsgDistinctFiniteDoses /\ dsgExpectedInfo # Null)
       => InfoPositiveDefinite(dsgExpectedInfo) /\ DsgBandAvailable
  /\ dsgExpectedInfo = Null => DsgNothingProduced

\* a design of distinct finite doses with its band
DsgBandReached ==
  DsgDistinctFiniteDoses /\ dsgExpectedInfo # Null /\ DsgBandAvailable

\* a covariance of finite entries was returned and the sampler rejected it:
\* a precision report is on the screen without a band
DsgReportWithoutBand ==
  /\ dsgExpectedInfo # Null /\ IsFin(dsgExpectedInfo.var_Emax)
  /\ dsgPrecisionMetrics # Null
  /\ dsgSamples = ArrayOf(0) /\ dsgConfidenceBands = Null

\* a covariance of NaN entries was returned
DsgNaNCovarianceReached ==
  dsgExpectedInfo # Null /\ IsNaN(dsgExpectedInfo.var_Emax)

\* no expected information: the empty design, or a rejected matrix
DsgRejectedReached ==
  /\ Len(ParseDoses(dsgDoseInput)) # 0 /\ dsgExpectedInfo = Null
  /\ DsgNothingProduced
====
